---- MODULE Spec2Model ----
(***************************************************************************)
(* Model of the title-matching scripts of tnlplatinum:                     *)
(*   scripts/json_updater.py          JSONUpdater (merge of matches)       *)
(*   scripts/cross_reference_films.py normalize_title,                    *)
(*                                    calculate_similarity, find_matches   *)
(*   scripts/matching_algorithm.py    TitleMatcher                         *)
(*   scripts/video_matcher.py         VideoMatcher (mapping, report tiers) *)
(*   scripts/review_manual_matches.py, scripts/apply_video_url_updates.py  *)
(*                                    the confidence tiers                 *)
(* Strings that the code inspects character by character are sequences of  *)
(* one-character strings; opaque values (urls, ids, catalog titles of the  *)
(* updater) are TLA+ strings compared for equality only.                   *)
(***************************************************************************)
EXTENDS Integers, Sequences, FiniteSets, TLC

VARIABLES
    file,          \* content of the catalog file (a list of entries), or Corrupt
    backup,        \* content of the backup copy made by this call, or NoBackup
    pc,            \* position of apply_matches_to_file: "idle", "loop", "done"
    data,          \* the list loaded by load_json_file and updated in place
    idx,           \* number of matches of the batch processed so far
    updates_made,  \* the counter of apply_matches_to_file
    cur,           \* the match processed by the last loop iteration, or NoMatch
    loc,           \* index of the record that iteration located (0: none)
    before,        \* the list as it was before that iteration
    counted,       \* whether that iteration incremented updates_made
    logged,        \* levels of the log records that iteration emitted
    ret,           \* value returned by apply_matches_to_file, or NoRet
    s1,            \* first argument of the pure function under check
    s2,            \* second argument of the pure function under check
    out,           \* result of the last pure-function application
    op,            \* which pure function produced out
    min_confidence,\* the threshold handed to the matcher under check
    source_name,   \* the source_name handed to find_matches
    json_file_type \* the catalog file whose entries TitleMatcher is handed

vars == <<file, backup, pc, data, idx, updates_made, cur, loc, before, counted,
          logged, ret, s1, s2, out, op, min_confidence, source_name,
          json_file_type>>

updaterVars == <<file, backup, pc, data, idx, updates_made, cur, loc, before,
                 counted, logged, ret>>

simVars == <<s1, s2, out, op, min_confidence, source_name, json_file_type>>

-----------------------------------------------------------------------------
(* Bounds of the model. *)

MaxEntries == 2     \* records in the catalog file
MaxBatch == 2       \* matches in one batch handed to apply_matches_to_file
MaxNormTokens == 4  \* tokens in a title handed to normalize_title
MaxSimLen == 2      \* characters in a title handed to calculate_similarity

-----------------------------------------------------------------------------
(* Python values. *)

None == "None"
NoMatch == [none |-> TRUE]
NoRet == 0 - 1
NoBackup == <<[nobackup |-> TRUE]>>
Corrupt == <<[corrupt |-> TRUE]>>    \* a file whose content is not valid JSON
Missing == <<[missing |-> TRUE]>>    \* no file at that path

\* dict.get(key): the value, or None when the key is absent
Get(d, k) == IF k \in DOMAIN d THEN d[k] ELSE None

\* dict.get(key, default)
GetDefault(d, k, default) == IF k \in DOMAIN d THEN d[k] ELSE default

\* `not v` for a value that is None or a string
Falsy(v) == v = None \/ v = ""

Min(S) == CHOOSE x \in S : \A y \in S : x <= y

-----------------------------------------------------------------------------
(* The universe of catalog records and matches.  Ids, titles and urls are   *)
(* opaque to the updater, which only compares them for equality.  Ids are  *)
(* unique when present: the record at position i carries either no id or   *)
(* the i-th id name.  The first record's title is named t1, and the first  *)
(* record is the one that may carry an empty-string videoUrl.              *)

IdNames == <<"id1", "id2", "id3", "id4">>
Titles == {"t1", "t2"}
Urls == {"u1", "u2"}
ExistingUrls == {"u1"}

\* the override threshold of apply_matches_to_file (0-100 scale)
OverrideThreshold == 95
Confidences == {OverrideThreshold, OverrideThreshold + 1}

MkEntry(id, title, url) ==
    LET keys == {"title"} \cup (IF id = None THEN {} ELSE {"id"})
                          \cup (IF url = None THEN {} ELSE {"videoUrl"})
    IN [k \in keys |-> CASE k = "id" -> id
                         [] k = "title" -> title
                         [] k = "videoUrl" -> url]

EntriesAt(i) ==
    {MkEntry(id, t, u) : id \in {None, IdNames[i]},
                         t \in (IF i = 1 THEN {"t1"} ELSE Titles),
                         u \in {None} \cup ExistingUrls
                                \cup (IF i = 1 THEN {""} ELSE {})}

RECURSIVE CatalogsOfLen(_)
CatalogsOfLen(n) ==
    IF n = 0 THEN {<<>>}
    ELSE {Append(c, e) : c \in CatalogsOfLen(n - 1), e \in EntriesAt(n)}

Catalogs == UNION {CatalogsOfLen(n) : n \in 0..MaxEntries}

\* the catalog entries a match may name: with an id (its title is then never
\* read by the updater) or without one
MatchEntries ==
    {MkEntry(IdNames[i], "t1", None) : i \in 1..MaxEntries}
        \cup {MkEntry(None, t, None) : t \in Titles}

\* a match as produced by TitleMatcher.match_videos_to_json
Matches ==
    {[json_entry |-> e, video_url |-> u, confidence |-> c] :
        e \in MatchEntries, u \in Urls, c \in Confidences}

-----------------------------------------------------------------------------
(* JSONUpdater *)

\* mutant: a new entry is built and the fields of the old one are not copied
update_entry_without_copy(entry, video_url, confidence) ==
    [k \in {"videoUrl"} |-> video_url]

\* update_entry_with_video_url: a copy of the entry with videoUrl set
update_entry_with_video_url(entry, video_url, confidence) ==
    [k \in DOMAIN entry \cup {"videoUrl"} |->
        IF k = "videoUrl" THEN video_url ELSE entry[k]]

\* the first record whose id equals entry_id (the loop breaks there), 0 if none
FindById(d, entry_id) ==
    LET S == {i \in DOMAIN d : Get(d[i], "id") = entry_id}
    IN IF S = {} THEN 0 ELSE Min(S)

\* the first record whose title equals title (the loop breaks there), 0 if none
FindByTitle(d, title) ==
    LET S == {i \in DOMAIN d : Get(d[i], "title") = title}
    IN IF S = {} THEN 0 ELSE Min(S)

\* mutant: a record located by id is updated only when it has no link
ShouldUpdateByIdWhenEmpty(existing_url, video_url, confidence) ==
    Falsy(existing_url)

\* the update condition of a record located by id
ShouldUpdateById(existing_url, video_url, confidence) ==
    \/ Falsy(existing_url)
    \/ confidence > OverrideThreshold
    \/ existing_url # video_url

\* the update condition of a record located by title
ShouldUpdateByTitle(existing_url, video_url, confidence) ==
    \/ Falsy(existing_url)
    \/ confidence > OverrideThreshold

\* mutant: when no record has the id, the title is tried
LocateWithFallback(d, json_entry) ==
    LET entry_id == Get(json_entry, "id")
        byTitle == FindByTitle(d, GetDefault(json_entry, "title", ""))
    IN IF entry_id # None /\ FindById(d, entry_id) # 0
       THEN FindById(d, entry_id)
       ELSE byTitle

\* The record a match names: by id when its json_entry has one, by exact
\* title otherwise; 0 when no record is found.
Locate(d, json_entry) ==
    LET entry_id == Get(json_entry, "id")
    IN IF entry_id # None THEN FindById(d, entry_id)
       ELSE FindByTitle(d, GetDefault(json_entry, "title", ""))

\* One iteration of the loop over the matches: the list afterwards, whether
\* updates_made was incremented, the record located and the log levels used.
ApplyMatch(d, match) ==
    LET json_entry == match.json_entry
        video_url == match.video_url
        confidence == match.confidence
        byId == Get(json_entry, "id") # None
        i == Locate(d, json_entry)
        existing_url == IF i = 0 THEN None ELSE Get(d[i], "videoUrl")
        upd == /\ i # 0
               /\ IF byId THEN ShouldUpdateById(existing_url, video_url, confidence)
                  ELSE ShouldUpdateByTitle(existing_url, video_url, confidence)
    IN [data |-> IF upd
                 THEN [d EXCEPT ![i] =
                          update_entry_with_video_url(d[i], video_url, confidence)]
                 ELSE d,
        counted |-> upd,
        loc |-> i,
        logged |-> IF i = 0 THEN {}
                   ELSE IF upd THEN {"info"}
                   ELSE IF byId THEN {"debug"} ELSE {}]

\* load_json_file: the list in the file, [] when it cannot be read or parsed
load_json_file(f) == IF f \in {Corrupt, Missing} THEN <<>> ELSE f

\* the locals of the call go out of scope when it returns
Return ==
    /\ data' = <<>>
    /\ idx' = 0
    /\ updates_made' = 0
    /\ cur' = NoMatch
    /\ loc' = 0
    /\ before' = <<>>
    /\ counted' = FALSE
    /\ logged' = {}

Idle(r) ==
    /\ pc' = "done"
    /\ ret' = r
    /\ UNCHANGED <<file, backup, data, idx, updates_made, cur, loc, before,
                   counted, logged>>

\* apply_matches_to_file with a file type that is not in json_files
BeginUnknownType ==
    /\ pc = "idle"
    /\ Idle(0)
    /\ UNCHANGED simVars

\* backup_file returns "": the file is missing or the copy fails
BeginNoBackup ==
    /\ pc = "idle"
    /\ Idle(0)
    /\ UNCHANGED simVars

\* the backup is made, the file holds no entry (or cannot be parsed)
BeginEmpty ==
    /\ pc = "idle"
    /\ file # Missing
    /\ load_json_file(file) = <<>>
    /\ backup' = file
    /\ pc' = "done"
    /\ ret' = 0
    /\ UNCHANGED <<file, data, idx, updates_made, cur, loc, before, counted, logged>>
    /\ UNCHANGED simVars

\* mutant: the data is loaded and no backup is made
BeginLoadWithoutBackup ==
    /\ pc = "idle"
    /\ file # Missing
    /\ load_json_file(file) # <<>>
    /\ data' = load_json_file(file)
    /\ updates_made' = 0
    /\ idx' = 0
    /\ pc' = "loop"
    /\ UNCHANGED <<file, backup, cur, loc, before, counted, logged, ret>>
    /\ UNCHANGED simVars

\* the backup is made and the entries are loaded: the loop starts
BeginLoad ==
    /\ pc = "idle"
    /\ file # Missing
    /\ load_json_file(file) # <<>>
    /\ backup' = file
    /\ data' = load_json_file(file)
    /\ updates_made' = 0
    /\ idx' = 0
    /\ pc' = "loop"
    /\ UNCHANGED <<file, cur, loc, before, counted, logged, ret>>
    /\ UNCHANGED simVars

\* one iteration of `for match in matches`
ProcessMatch(match) ==
    /\ pc = "loop"
    /\ idx < MaxBatch
    /\ LET r == ApplyMatch(data, match)
       IN /\ data' = r.data
          /\ updates_made' = updates_made + (IF r.counted THEN 1 ELSE 0)
          /\ counted' = r.counted
          /\ loc' = r.loc
          /\ before' = data
          /\ logged' = r.logged
    /\ cur' = match
    /\ idx' = idx + 1
    /\ UNCHANGED <<file, backup, pc, ret>>
    /\ UNCHANGED simVars

\* the batch is exhausted and nothing was updated: the file is not rewritten
FinishNoUpdate ==
    /\ pc = "loop"
    /\ updates_made = 0
    /\ pc' = "done"
    /\ ret' = updates_made
    /\ Return
    /\ UNCHANGED <<file, backup>>
    /\ UNCHANGED simVars

\* the batch is exhausted and save_json_file succeeds
FinishSaved ==
    /\ pc = "loop"
    /\ updates_made > 0
    /\ file' = data
    /\ pc' = "done"
    /\ ret' = updates_made
    /\ Return
    /\ UNCHANGED backup
    /\ UNCHANGED simVars

\* the batch is exhausted and save_json_file fails: open() fails and leaves
\* the file as it was, or the write fails after open() truncated it
FinishSaveFailed ==
    /\ pc = "loop"
    /\ updates_made > 0
    /\ file' \in {file, Corrupt}
    /\ pc' = "done"
    /\ ret' = 0
    /\ Return
    /\ UNCHANGED backup
    /\ UNCHANGED simVars

InitUpdater ==
    /\ file \in Catalogs \cup {Corrupt, Missing}
    /\ backup = NoBackup
    /\ pc = "idle"
    /\ data = <<>>
    /\ idx = 0
    /\ updates_made = 0
    /\ cur = NoMatch
    /\ loc = 0
    /\ before = <<>>
    /\ counted = FALSE
    /\ logged = {}
    /\ ret = NoRet

\* no matcher is called: its threshold and source name are unset
NoMatcher ==
    /\ min_confidence = 0
    /\ source_name = "none"
    /\ json_file_type = "none"

InitSimIdle ==
    /\ s1 = <<>>
    /\ s2 = <<>>
    /\ out = <<>>
    /\ op = "none"
    /\ NoMatcher

Init == InitUpdater /\ InitSimIdle

Next ==
    \/ BeginUnknownType
    \/ BeginNoBackup
    \/ BeginEmpty
    \/ BeginLoad
    \/ \E match \in Matches : ProcessMatch(match)
    \/ FinishNoUpdate
    \/ FinishSaved
    \/ FinishSaveFailed

Spec == Init /\ [][Next]_vars

-----------------------------------------------------------------------------
(* Titles as the cross-reference script reads them: sequences of characters.*)
(* A character is written as a short ASCII string:                         *)
(*   "<" U+300A and ">" U+300B, the title brackets                          *)
(*   "!" U+FF5C, the fullwidth vertical bar      "|" the ASCII bar          *)
(*   ";" U+FF1A, the fullwidth colon             ":" the ASCII colon        *)
(*   "%" U+FF0F, the fullwidth solidus           "/" the ASCII solidus      *)
(*   "Shi" U+8A66, "Ying" U+6620, "Ju" U+5287, "Chang" U+5834, "Yin" U+97F3,*)
(*   "Pian" U+7247, "Mie" U+4E5C, "Dou" U+90FD, "De" U+5F97, "Wan" U+73A9,  *)
(*   "Mao" U+6BDB, the characters of the playlist labels                    *)
(* and every other character stands for itself.                            *)

OpenB == "<"
CloseB == ">"

\* str.lower() on one character
LowerChar(c) ==
    CASE c = "A" -> "a"
      [] c = "B" -> "b"
      [] c = "Y" -> "y"
      [] c = "T" -> "t"
      [] c = "E" -> "e"
      [] c = "P" -> "p"
      [] OTHER -> c

\* str.lower()
Lower(s) == [i \in DOMAIN s |-> LowerChar(s[i])]

\* the characters str.strip() and the regex class \s take for whitespace
IsSpace(c) == c = " "

\* the characters the regex class \w matches: letters (the CJK ones too),
\* digits and the underscore
IsWord(c) ==
    c \in {"a", "A", "b", "B", "Y", "o", "u", "T", "e", "y", "t", "E", "P", "p",
           "0", "6", "_",
           "Shi", "Ying", "Ju", "Chang", "Yin", "Pian", "Mie", "Dou", "De",
           "Wan", "Mao", "Dang", "Zhen", "Ha", "Li", "Bo", "Shen"}

\* the characters of normalized.strip(...) at line 58
StripChars == {"<", ">", "[", "]", "(", ")", "!", "|", ";", ":"}

\* s without its leading characters that are in cs
RECURSIVE LStrip(_, _)
LStrip(s, cs) ==
    IF s # <<>> /\ Head(s) \in cs THEN LStrip(Tail(s), cs) ELSE s

\* s without its trailing characters that are in cs
RECURSIVE RStrip(_, _)
RStrip(s, cs) ==
    IF s # <<>> /\ s[Len(s)] \in cs THEN RStrip(SubSeq(s, 1, Len(s) - 1), cs) ELSE s

\* str.strip(chars)
StripSet(s, cs) == RStrip(LStrip(s, cs), cs)

\* str.strip()
Strip(s) == StripSet(s, {" "})

\* whether pat occurs in s at position i
MatchAt(s, pat, i) ==
    /\ i >= 1
    /\ i + Len(pat) - 1 <= Len(s)
    /\ \A k \in 1..Len(pat) : s[i + k - 1] = pat[k]

\* the position of the first occurrence of pat in s, 0 if there is none
Find(s, pat) ==
    LET S == {i \in 1..(Len(s) + 1) : MatchAt(s, pat, i)}
    IN IF S = {} THEN 0 ELSE Min(S)

\* `pat in s`
Contains(s, pat) == Find(s, pat) # 0

\* the position of the first character of s at or after `from` that is in cs,
\* 0 if there is none
FindChar(s, cs, from) ==
    LET S == {i \in DOMAIN s : i >= from /\ s[i] \in cs}
    IN IF S = {} THEN 0 ELSE Min(S)

\* re.split(pat, s)[0] for a literal pat: s up to the first occurrence of pat
Before(s, pat) ==
    LET i == Find(s, pat)
    IN IF i = 0 THEN s ELSE SubSeq(s, 1, i - 1)

\* re.split(pat, s, flags=re.IGNORECASE)[0] for a literal pat
BeforeIgnoreCase(s, pat) ==
    LET i == Find(Lower(s), Lower(pat))
    IN IF i = 0 THEN s ELSE SubSeq(s, 1, i - 1)

\* re.split(r'[cs]', s)[0]: s up to its first character in cs
BeforeChar(s, cs) ==
    LET i == FindChar(s, cs, 1)
    IN IF i = 0 THEN s ELSE SubSeq(s, 1, i - 1)

\* re.sub(r'\s+', ' ', s): every run of whitespace becomes one space
RECURSIVE CollapseSpace(_)
CollapseSpace(s) ==
    IF s = <<>> THEN <<>>
    ELSE IF IsSpace(Head(s))
         THEN <<" ">> \o CollapseSpace(LStrip(Tail(s), {" "}))
         ELSE <<Head(s)>> \o CollapseSpace(Tail(s))

\* re.sub(r'[^\w]', '', s)
RemoveNonWord(s) == SelectSeq(s, IsWord)

\* the labels of patterns_to_extract (lines 37-40); the last pattern has none
LabelFilm == <<"Shi", "Ying", "Ju", "Chang">>
LabelSong == <<"Shi", "Yin", "Pian">>
LabelAny == <<"Shi", "Mie", "Dou", "De">>
LabelGame == <<"Shi", "Wan", "Mao">>

NoGroup == <<"no match">>

\* The group of `<(.+?)>` with the opening bracket at position open: the lazy
\* group takes at least one character and ends before the first closing
\* bracket after it.  NoGroup when open = 0 or no closing bracket follows.
GroupFrom(s, open) ==
    LET close == IF open = 0 THEN 0 ELSE FindChar(s, {CloseB}, open + 2)
    IN IF close = 0 THEN NoGroup ELSE SubSeq(s, open + 1, close - 1)

\* re.search(label + '<(.+?)>', s): group 1 of the leftmost match.  A later
\* start cannot match when the leftmost occurrence of label + '<' does not,
\* since a closing bracket for the later one closes the earlier one too.
SearchLabelled(s, label) ==
    LET p == Find(s, label \o <<OpenB>>)
    IN GroupFrom(s, IF p = 0 THEN 0 ELSE p + Len(label))

\* re.search(label + '[^<]*<(.+?)>', s): the greedy [^<]* stops at the first
\* opening bracket after the label
SearchLabelledGap(s, label) ==
    LET p == Find(s, label)
    IN GroupFrom(s, IF p = 0 THEN 0 ELSE FindChar(s, {OpenB}, p + Len(label)))

\* re.search('<(.+?)>', s)
SearchBracket(s) == GroupFrom(s, FindChar(s, {OpenB}, 1))

\* lines 45-49: the group of the first pattern that matched, s if none did
FirstGroup(s, g1, g2, g3, g4, g5) ==
    CASE g1 # NoGroup -> g1
      [] g2 # NoGroup -> g2
      [] g3 # NoGroup -> g3
      [] g4 # NoGroup -> g4
      [] g5 # NoGroup -> g5
      [] OTHER -> s

\* mutant: no pattern is tried, the title is kept whole
ExtractNothing(s) == s

\* the loop over patterns_to_extract: the first pattern that matches wins
ExtractCore(s) ==
    FirstGroup(s, SearchLabelled(s, LabelFilm), SearchLabelled(s, LabelSong),
               SearchLabelled(s, LabelAny), SearchLabelledGap(s, LabelGame),
               SearchBracket(s))

SuffixYouTube == <<"-", " ", "Y", "o", "u", "T", "u", "b", "e">>
SuffixYoutube == <<"-", " ", "y", "o", "u", "t", "u", "b", "e">>

\* lines 52-54: the three re.split(...)[0] that cut the site suffixes
CutSite(normalized) ==
    BeforeIgnoreCase(Before(BeforeChar(normalized, {"!", "|"}), SuffixYouTube),
                     SuffixYoutube)

\* normalize_title
normalize_title(title) ==
    IF title = <<>> THEN <<>>
    ELSE Strip(StripSet(CollapseSpace(CutSite(ExtractCore(Strip(title)))),
                        StripChars))

-----------------------------------------------------------------------------
(* Scores.  A float of the 0-1 scale is the fraction <<n, d>> in lowest     *)
(* terms: the scores the code produces are the literals 0.0, 0.8, 0.85,    *)
(* 0.9, 0.95, 1.0 and the quotients 2.0 * M / T of small integers, and two *)
(* of them are equal as floats exactly when they are equal as fractions.   *)

RECURSIVE GCD(_, _)
GCD(m, n) == IF n = 0 THEN m ELSE GCD(n, m % n)

Frac(n, d) == LET g == GCD(n, d) IN <<n \div g, d \div g>>

Less(x, y) == x[1] * y[2] < y[1] * x[2]

\* max(x, y) of two floats
MaxScore(x, y) == IF Less(x, y) THEN y ELSE x

Score0 == Frac(0, 1)
Score1 == Frac(1, 1)
ScoreNormEqual == Frac(95, 100)      \* line 87
ScoreContains == Frac(80, 100)       \* line 94
ScoreCleanEqual == Frac(90, 100)     \* line 102
ScoreCleanContains == Frac(85, 100)  \* line 104

\* difflib.SequenceMatcher (no junk; autojunk needs 200 characters).

\* the length of the longest common run of a from i and b from j, inside
\* a[..ahi] and b[..bhi]
RECURSIVE CommonLen(_, _, _, _, _, _)
CommonLen(a, i, ahi, b, j, bhi) ==
    IF i <= ahi /\ j <= bhi /\ a[i] = b[j]
    THEN 1 + CommonLen(a, i + 1, ahi, b, j + 1, bhi)
    ELSE 0

\* find_longest_match: the longest block a[i..i+k-1] = b[j..j+k-1] inside
\* a[alo..ahi] and b[blo..bhi]; of the longest ones, the one that starts
\* earliest in a, and of those the one that starts earliest in b.
find_longest_match(a, alo, ahi, b, blo, bhi) ==
    LET cands == {<<i, j, CommonLen(a, i, ahi, b, j, bhi)>> :
                     i \in alo..ahi, j \in blo..bhi}
        good == {c \in cands : c[3] > 0}
    IN IF good = {} THEN <<alo, blo, 0>>
       ELSE CHOOSE c \in good : \A e \in good :
                \/ c[3] > e[3]
                \/ c[3] = e[3] /\ c[1] < e[1]
                \/ c[3] = e[3] /\ c[1] = e[1] /\ c[2] <= e[2]

\* get_matching_blocks: the total size of the blocks, found by taking the
\* longest block and recurring on the pieces left and right of it
RECURSIVE MatchingSize(_, _, _, _, _, _)
MatchingSize(a, alo, ahi, b, blo, bhi) ==
    IF alo > ahi \/ blo > bhi THEN 0
    ELSE LET m == find_longest_match(a, alo, ahi, b, blo, bhi)
             i == m[1]
             j == m[2]
             k == m[3]
         IN IF k = 0 THEN 0
            ELSE k + MatchingSize(a, alo, i - 1, b, blo, j - 1)
                   + MatchingSize(a, i + k, ahi, b, j + k, bhi)

\* SequenceMatcher(None, a, b).ratio()
Ratio(a, b) ==
    IF Len(a) + Len(b) = 0 THEN Score1
    ELSE Frac(2 * MatchingSize(a, 1, Len(a), b, 1, Len(b)), Len(a) + Len(b))

-----------------------------------------------------------------------------
(* calculate_similarity *)

\* the strings line 68 lists as meaningless
Placeholders == {<<"%">>, <<"/">>, <<"-">>, <<>>, <<" ">>}

\* mutant: the trimmed length of the second argument is not checked
MeaninglessNoLength(str2) == str2 \in Placeholders

\* line 68: the filter on the second argument
Meaningless(str2) == str2 \in Placeholders \/ Len(Strip(str2)) < 2

\* mutant: the lengths of the normalized strings are not checked
NormUnusableNoLength(norm1, norm2) == norm1 = <<>> \/ norm2 = <<>>

\* line 80: the filter on the normalized strings
NormUnusable(norm1, norm2) ==
    \/ norm1 = <<>>
    \/ norm2 = <<>>
    \/ Len(Strip(norm1)) < 2
    \/ Len(Strip(norm2)) < 2

MinOf(m, n) == IF m <= n THEN m ELSE n

\* mutant: a boost replaces the score instead of raising it
FuzzyScoreReplaced(norm1, norm2) ==
    LET l1 == Lower(norm1)
        l2 == Lower(norm2)
        base == Ratio(l1, l2)
        boosted == IF /\ (Contains(l2, l1) \/ Contains(l1, l2))
                      /\ MinOf(Len(norm1), Len(norm2)) >= 3
                   THEN ScoreContains
                   ELSE base
        clean1 == RemoveNonWord(l1)
        clean2 == RemoveNonWord(l2)
    IN IF clean1 = clean2 /\ Len(clean1) >= 3
       THEN ScoreCleanEqual
       ELSE IF /\ (Contains(clean2, clean1) \/ Contains(clean1, clean2))
               /\ MinOf(Len(clean1), Len(clean2)) >= 3
            THEN ScoreCleanContains
            ELSE boosted

\* lines 93-94: the boost when one lower-cased string contains the other
ContainsBoost(norm1, norm2, l1, l2, similarity) ==
    IF /\ (Contains(l2, l1) \/ Contains(l1, l2))
       /\ MinOf(Len(norm1), Len(norm2)) >= 3
    THEN MaxScore(similarity, ScoreContains)
    ELSE similarity

\* lines 101-104: the boosts on the strings without their characters that
\* are not alphanumeric
CleanBoost(similarity, clean1, clean2) ==
    IF clean1 = clean2 /\ Len(clean1) >= 3
    THEN MaxScore(similarity, ScoreCleanEqual)
    ELSE IF /\ (Contains(clean2, clean1) \/ Contains(clean1, clean2))
            /\ MinOf(Len(clean1), Len(clean2)) >= 3
         THEN MaxScore(similarity, ScoreCleanContains)
         ELSE similarity

\* lines 90-109: the fuzzy ratio and its boosts
FuzzyScore(norm1, norm2) ==
    CleanBoost(ContainsBoost(norm1, norm2, Lower(norm1), Lower(norm2),
                             Ratio(Lower(norm1), Lower(norm2))),
               RemoveNonWord(Lower(norm1)), RemoveNonWord(Lower(norm2)))

\* mutant: the direct match is tested after the normalized strings are
\* filtered
calculate_similarity_equal_late(str1, str2) ==
    IF str1 = <<>> \/ str2 = <<>> THEN Score0
    ELSE IF Meaningless(str2) THEN Score0
    ELSE LET norm1 == normalize_title(str1)
             norm2 == normalize_title(str2)
         IN IF NormUnusable(norm1, norm2) THEN Score0
            ELSE IF str1 = str2 THEN Score1
            ELSE IF norm1 = norm2 THEN ScoreNormEqual
            ELSE FuzzyScore(norm1, norm2)

\* lines 80-109: the score of the normalized strings
ScoreOfNormalized(norm1, norm2) ==
    IF NormUnusable(norm1, norm2) THEN Score0
    ELSE IF norm1 = norm2 THEN ScoreNormEqual
    ELSE FuzzyScore(norm1, norm2)

\* calculate_similarity (lines 62-109)
calculate_similarity(str1, str2) ==
    IF str1 = <<>> \/ str2 = <<>> THEN Score0
    ELSE IF Meaningless(str2) THEN Score0
    ELSE IF str1 = str2 THEN Score1
    ELSE ScoreOfNormalized(normalize_title(str1), normalize_title(str2))

-----------------------------------------------------------------------------
(* The pure functions, applied to titles drawn from bounded sets. *)

\* the updater stays idle on an empty catalog
InitUpdaterIdle ==
    /\ file = <<>>
    /\ backup = NoBackup
    /\ pc = "idle"
    /\ data = <<>>
    /\ idx = 0
    /\ updates_made = 0
    /\ cur = NoMatch
    /\ loc = 0
    /\ before = <<>>
    /\ counted = FALSE
    /\ logged = {}
    /\ ret = NoRet

\* the pieces a title handed to normalize_title is made of: single
\* characters, the playlist labels and the site suffixes
NormTokens ==
    {<<c>> : c \in {"a", " ", "<", ">", "|", "!", ":", "("}}
        \cup {LabelFilm, LabelGame}
        \cup {SuffixYouTube, SuffixYoutube}

RECURSIVE TokenStrings(_, _)
TokenStrings(tokens, n) ==
    IF n = 0 THEN {<<>>}
    ELSE LET shorter == TokenStrings(tokens, n - 1)
         IN shorter \cup {s \o t : s \in shorter, t \in tokens}

NormInputs == TokenStrings(NormTokens, MaxNormTokens)

\* the characters of a title handed to calculate_similarity
SimChars == {"a", "A", "b", " ", "/", "-", "%", ":"}

SimInputs == TokenStrings({<<c>> : c \in SimChars}, MaxSimLen)

InitNorm ==
    /\ InitUpdaterIdle
    /\ s1 \in NormInputs
    /\ s2 = <<>>
    /\ out = <<>>
    /\ op = "none"
    /\ NoMatcher

\* out = normalize_title(s1)
Normalize ==
    /\ op = "none"
    /\ out' = normalize_title(s1)
    /\ op' = "normalize"
    /\ UNCHANGED <<s1, s2, min_confidence, source_name, json_file_type>>
    /\ UNCHANGED updaterVars

\* the result is normalized again: s2 keeps the first result
NormalizeAgain ==
    /\ op = "normalize"
    /\ s2' = out
    /\ out' = normalize_title(out)
    /\ op' = "normalize2"
    /\ UNCHANGED <<s1, min_confidence, source_name, json_file_type>>
    /\ UNCHANGED updaterVars

NextNorm == Normalize \/ NormalizeAgain

SpecNorm == InitNorm /\ [][NextNorm]_vars

InitSim ==
    /\ InitUpdaterIdle
    /\ s1 \in SimInputs
    /\ s2 \in SimInputs
    /\ out = <<>>
    /\ op = "none"
    /\ NoMatcher

\* out = calculate_similarity(s1, s2)
Similarity ==
    /\ op = "none"
    /\ out' = calculate_similarity(s1, s2)
    /\ op' = "similarity"
    /\ UNCHANGED <<s1, s2, min_confidence, source_name, json_file_type>>
    /\ UNCHANGED updaterVars

NextSim == Similarity

SpecSim == InitSim /\ [][NextSim]_vars

MaxBoostTokens == 3     \* pieces in a title long enough for the boosts

\* the pieces of a title long enough for the boosts of lines 93-104: a
\* word, the same word with a hyphen inside, one more letter
BoostTokens == {<<"a", "b">>, <<"a", "-", "b">>, <<"e">>}

BoostInputs == TokenStrings(BoostTokens, MaxBoostTokens)

InitBoost ==
    /\ InitUpdaterIdle
    /\ s1 \in BoostInputs
    /\ s2 \in BoostInputs
    /\ out = <<>>
    /\ op = "none"
    /\ NoMatcher

SpecBoost == InitBoost /\ [][NextSim]_vars

-----------------------------------------------------------------------------
(* find_matches of cross_reference_films.py: the films without a link and  *)
(* the pool of another catalog file.                                       *)

MaxPool == 4        \* records in the pool handed to find_matches

TopK == 3           \* line 197: best_matches[:3]

\* `if v` for a title field: a non-empty string
Truthy(s) == s # <<>>

TitleA == <<"a", "b", "e">>
TitleABracket == <<"<", "a", "b", "e", ">">>
TitleALonger == <<"a", "b", "e", "t">>
TitleB == <<"a", "b", "o">>
TitleC == <<"a", "t", "y">>

FindTitles == {TitleA, TitleABracket, TitleALonger, TitleB, TitleC}

\* calculate_similarity on the titles of the films and of the pool, computed
\* once for every pair
Similarities ==
    [str1 \in FindTitles, str2 \in FindTitles |-> calculate_similarity(str1, str2)]

\* the films handed to find_matches: without videoUrl, with or without a
\* fullTitle
FilmA == [title |-> TitleA]
FilmB == [title |-> TitleB, fullTitle |-> TitleABracket]

FilmLists == {<<>>, <<FilmA>>, <<FilmB>>, <<FilmA, FilmB>>}

\* the link of the pool record at position i
PoolUrls == <<"v1", "v2", "v3", "v4", "v5", "v6">>

\* the records of another catalog file at position i of the pool; the first
\* record is the one that may lack a videoUrl or carry an empty one
PoolItemsAt(i) ==
    {[title |-> TitleA, videoUrl |-> PoolUrls[i]],
     [title |-> TitleC, fullTitle |-> TitleALonger, videoUrl |-> PoolUrls[i]],
     [title |-> TitleB, videoUrl |-> PoolUrls[i]],
     [title |-> TitleC, song |-> TitleA, videoUrl |-> PoolUrls[i]]}
        \cup (IF i = 1
              THEN {[title |-> TitleA], [title |-> TitleA, videoUrl |-> ""]}
              ELSE {})

RECURSIVE PoolsOfLen(_)
PoolsOfLen(n) ==
    IF n = 0 THEN {<<>>}
    ELSE {Append(p, item) : p \in PoolsOfLen(n - 1), item \in PoolItemsAt(n)}

Pools == UNION {PoolsOfLen(n) : n \in 0..MaxPool}

SourceNames == {"ads", "songs"}

\* the thresholds find_matches is called with: the default of line 112 and
\* the tier boundaries above it
Thresholds == {Frac(60, 100), Frac(80, 100), Frac(90, 100)}

\* lines 137-176: one (type, score) pair, appended when both fields are set
Pair(type, x, y) ==
    IF Truthy(x) /\ Truthy(y) THEN <<<<type, Similarities[x, y]>>>>
    ELSE <<>>

\* lines 145-175: the (type, score) pairs of one film and one pool record,
\* in the order the code appends them
FieldPairs(film, item, source) ==
    LET film_title == GetDefault(film, "title", <<>>)
        film_full_title == GetDefault(film, "fullTitle", <<>>)
        other_title == GetDefault(item, "title", <<>>)
        other_full_title == GetDefault(item, "fullTitle", <<>>)
        other_song == GetDefault(item, "song", <<>>)
        other_movie == GetDefault(item, "movie", <<>>)
    IN Pair("title_to_title", film_title, other_title)
        \o Pair("title_to_fullTitle", film_title, other_full_title)
        \o Pair("fullTitle_to_title", film_full_title, other_title)
        \o Pair("fullTitle_to_fullTitle", film_full_title, other_full_title)
        \o (IF source = "songs"
            THEN Pair("title_to_song", film_title, other_song)
                 \o Pair("title_to_movie", film_title, other_movie)
            ELSE <<>>)

\* line 179: max(similarities, key=lambda x: x[1]), the first of the largest
BestPair(similarities) ==
    LET best == CHOOSE i \in DOMAIN similarities :
                    /\ \A j \in DOMAIN similarities :
                           ~Less(similarities[i][2], similarities[j][2])
                    /\ \A j \in 1..(i - 1) :
                           Less(similarities[j][2], similarities[i][2])
    IN similarities[best]

\* lines 182-193: the candidate recorded for a film and a pool record
Candidate(film, item, source, best) ==
    [film |-> film,
     match |-> item,
     source |-> source,
     confidence |-> best[2],
     match_type |-> best[1],
     film_title |-> GetDefault(film, "title", <<>>),
     film_full_title |-> GetDefault(film, "fullTitle", <<>>),
     match_title |-> GetDefault(item, "title", <<>>),
     match_full_title |-> GetDefault(item, "fullTitle", <<>>),
     video_url |-> Get(item, "videoUrl")]

\* mutant: the comparison with the threshold is the wrong way round
ReachesInverted(score, threshold) == ~Less(threshold, score)

\* line 181: best_sim_score >= min_confidence
Reaches(score, threshold) == ~Less(score, threshold)

\* lines 128-193, one pool record: skipped without a link (line 136) or
\* without a pair (line 178), else recorded when its best pair reaches the
\* threshold (line 181)
CandidateOf(film, item, source, threshold, similarities) ==
    IF Falsy(Get(item, "videoUrl")) THEN <<>>
    ELSE IF similarities = <<>> THEN <<>>
    ELSE IF ~Reaches(BestPair(similarities)[2], threshold) THEN <<>>
    ELSE <<Candidate(film, item, source, BestPair(similarities))>>

\* lines 128-193: the candidates of one film, in pool order
RECURSIVE BestMatches(_, _, _, _, _)
BestMatches(film, other_data, source, threshold, i) ==
    IF i > Len(other_data) THEN <<>>
    ELSE CandidateOf(film, other_data[i], source, threshold,
                     FieldPairs(film, other_data[i], source))
         \o BestMatches(film, other_data, source, threshold, i + 1)

\* mutant: the sort is not stable, a later candidate of equal confidence
\* overtakes an earlier one
RECURSIVE InsertAfterSmaller(_, _)
InsertAfterSmaller(sorted, c) ==
    IF sorted = <<>> THEN <<c>>
    ELSE IF Less(c.confidence, Head(sorted).confidence)
         THEN <<Head(sorted)>> \o InsertAfterSmaller(Tail(sorted), c)
         ELSE <<c>> \o sorted

\* list.sort(key=confidence, reverse=True) inserts candidate c, which came
\* later in the list, behind every candidate that is not smaller
RECURSIVE InsertByConfidence(_, _)
InsertByConfidence(sorted, c) ==
    IF sorted = <<>> THEN <<c>>
    ELSE IF Less(Head(sorted).confidence, c.confidence)
         THEN <<c>> \o sorted
         ELSE <<Head(sorted)>> \o InsertByConfidence(Tail(sorted), c)

\* line 196: the stable sort by descending confidence
RECURSIVE SortByConfidence(_)
SortByConfidence(list) ==
    IF list = <<>> THEN <<>>
    ELSE InsertByConfidence(SortByConfidence(SubSeq(list, 1, Len(list) - 1)),
                            list[Len(list)])

\* mutant: the list is not cut
TakeAll(list, n) == list

\* list[:n]
Take(list, n) == SubSeq(list, 1, MinOf(n, Len(list)))

\* lines 126-197: the candidates kept for one film
KeptFor(film, other_data, source, threshold) ==
    Take(SortByConfidence(BestMatches(film, other_data, source, threshold, 1)),
         TopK)

\* find_matches (lines 111-199)
RECURSIVE find_matches(_, _, _, _)
find_matches(films_without_url, other_data, source, threshold) ==
    IF films_without_url = <<>> THEN <<>>
    ELSE KeptFor(Head(films_without_url), other_data, source, threshold)
         \o find_matches(Tail(films_without_url), other_data, source, threshold)

InitFind ==
    /\ InitUpdaterIdle
    /\ s1 \in FilmLists
    /\ s2 \in Pools
    /\ min_confidence \in Thresholds
    /\ source_name \in SourceNames
    /\ json_file_type = "none"
    /\ out = <<>>
    /\ op = "none"

\* out = find_matches(s1, s2, source_name, min_confidence)
FindMatches ==
    /\ op = "none"
    /\ source_name \in SourceNames
    /\ out' = find_matches(s1, s2, source_name, min_confidence)
    /\ op' = "find_matches"
    /\ UNCHANGED <<s1, s2, min_confidence, source_name, json_file_type>>
    /\ UNCHANGED updaterVars

\* find_matches is called again on the same films and pool with a higher
\* threshold
FindMatchesRaised(threshold) ==
    /\ op \in {"find_matches", "find_matches_raised"}
    /\ Less(min_confidence, threshold)
    /\ min_confidence' = threshold
    /\ out' = find_matches(s1, s2, source_name, threshold)
    /\ op' = "find_matches_raised"
    /\ UNCHANGED <<s1, s2, source_name, json_file_type>>
    /\ UNCHANGED updaterVars

NextFind ==
    \/ FindMatches
    \/ \E threshold \in Thresholds : FindMatchesRaised(threshold)

SpecFind == InitFind /\ [][NextFind]_vars

-----------------------------------------------------------------------------
(* TitleMatcher of matching_algorithm.py.  Scores are on the 0-100 scale.   *)
(* Further characters:                                                     *)
(*   "{" U+3008 and "}" U+3009, the angle brackets                          *)
(*   "Dang" U+7576, "Zhen" U+771F, the rest of the channel name             *)
(*   "Ha" U+54C8, "Li" U+5229, "Bo" U+6CE2, "Shen" U+814E, a title          *)

LabelChannel == <<"Shi", "Dang", "Zhen">>
WordYouTube == <<"Y", "o", "u", "T", "u", "b", "e">>
Bars == {"!", "|"}
OpenBrackets == {"<", "{"}
CloseBrackets == {">", "}"}

\* the position of the first character of s at or after i that is not
\* whitespace, Len(s) + 1 if there is none
RECURSIVE SkipSpace(_, _)
SkipSpace(s, i) ==
    IF i <= Len(s) /\ IsSpace(s[i]) THEN SkipSpace(s, i + 1) ELSE i

\* re.sub(r'\s*[seps]\s*word.*$', '', s): s is cut at the whitespace before
\* the first separator that word follows
CutSuffix(s, seps, word) ==
    LET S == {k \in DOMAIN s :
                 s[k] \in seps /\ MatchAt(s, word, SkipSpace(s, k + 1))}
    IN IF S = {} THEN s ELSE RStrip(SubSeq(s, 1, Min(S) - 1), {" "})

\* re.sub(r'^\s*label\s*[<{]?', '', s)
CutPrefix(s, label) ==
    LET p == SkipSpace(s, 1)
        q == SkipSpace(s, p + Len(label))
        r == IF q <= Len(s) /\ s[q] \in OpenBrackets THEN q + 1 ELSE q
    IN IF MatchAt(s, label, p) THEN SubSeq(s, r, Len(s)) ELSE s

\* re.sub(r'[>}]\s*$', '', s)
CutClosing(s) ==
    LET t == RStrip(s, {" "})
    IN IF t # <<>> /\ t[Len(t)] \in CloseBrackets
       THEN SubSeq(t, 1, Len(t) - 1)
       ELSE s

\* TitleMatcher.clean_title (lines 31-46)
clean_title(title) ==
    IF title = <<>> THEN <<>>
    ELSE LET t1 == CutSuffix(title, Bars, LabelChannel)
             t2 == CutSuffix(t1, {"-"}, WordYouTube)
             t3 == CutPrefix(t2, LabelFilm)
             t4 == CutPrefix(t3, LabelSong)
             t5 == CutPrefix(t4, LabelAny)
             t6 == CutClosing(t5)
         IN Strip(CollapseSpace(t6))

\* the regex class \d
IsDigit(c) == c \in {"0", "6"}

\* the position after the digits of s that start at i
RECURSIVE SkipDigits(_, _)
SkipDigits(s, i) ==
    IF i <= Len(s) /\ IsDigit(s[i]) THEN SkipDigits(s, i + 1) ELSE i

\* str.replace(pat, ''), pat not empty
RECURSIVE Remove(_, _)
Remove(s, pat) ==
    LET i == Find(s, pat)
    IN IF i = 0 THEN s
       ELSE SubSeq(s, 1, i - 1) \o Remove(SubSeq(s, i + Len(pat), Len(s)), pat)

\* the None of extract_episode_info
NoEpisode == <<"None">>

\* TitleMatcher.extract_episode_info (lines 48-57): <<base_title, episode>>
extract_episode_info(title) ==
    LET S == {i \in DOMAIN title :
                 /\ i + 2 <= Len(title)
                 /\ LowerChar(title[i]) = "e"
                 /\ LowerChar(title[i + 1]) = "p"
                 /\ IsDigit(title[i + 2])}
        i == Min(S)
        episode == SubSeq(title, i, SkipDigits(title, i + 2) - 1)
    IN IF S = {} THEN <<title, NoEpisode>>
       ELSE <<Strip(Remove(title, episode)), episode>>

\* round() of the fraction n / d
RoundHalfEven(n, d) ==
    LET q == n \div d
        r == n % d
    IN IF 2 * r < d THEN q
       ELSE IF 2 * r > d THEN q + 1
       ELSE IF q % 2 = 0 THEN q ELSE q + 1

\* fuzzywuzzy utils.intr(100 * r)
Percent(r) == RoundHalfEven(100 * r[1], r[2])

\* fuzzywuzzy fuzz.ratio: 100 for equal strings, 0 for an empty one, else
\* the rounded SequenceMatcher ratio
fuzz_ratio(str1, str2) ==
    IF str1 = str2 THEN 100
    ELSE IF str1 = <<>> \/ str2 = <<>> THEN 0
    ELSE Percent(Ratio(str1, str2))

\* SequenceMatcher.get_matching_blocks without its closing sentinel
RECURSIVE MatchingBlocks(_, _, _, _, _, _)
MatchingBlocks(a, alo, ahi, b, blo, bhi) ==
    IF alo > ahi \/ blo > bhi THEN <<>>
    ELSE LET m == find_longest_match(a, alo, ahi, b, blo, bhi)
         IN IF m[3] = 0 THEN <<>>
            ELSE MatchingBlocks(a, alo, m[1] - 1, b, blo, m[2] - 1)
                 \o <<m>>
                 \o MatchingBlocks(a, m[1] + m[3], ahi, b, m[2] + m[3], bhi)

\* fuzzywuzzy fuzz.partial_ratio: the best ratio of the shorter string with
\* the windows of the longer one that the matching blocks line up
fuzz_partial_ratio(str1, str2) ==
    LET shorter == IF Len(str1) <= Len(str2) THEN str1 ELSE str2
        longer == IF Len(str1) <= Len(str2) THEN str2 ELSE str1
        blocks == MatchingBlocks(shorter, 1, Len(shorter), longer, 1, Len(longer))
                      \o <<<<Len(shorter) + 1, Len(longer) + 1, 0>>>>
        starts == {IF blocks[n][2] - blocks[n][1] > 0
                   THEN blocks[n][2] - blocks[n][1] ELSE 0 : n \in DOMAIN blocks}
        Window(start) ==
            SubSeq(longer, start + 1, MinOf(start + Len(shorter), Len(longer)))
        ratios == {Ratio(shorter, Window(start)) : start \in starts}
        best == CHOOSE r \in ratios : \A q \in ratios : ~Less(r, q)
    IN IF str1 = str2 THEN 100
       ELSE IF str1 = <<>> \/ str2 = <<>> THEN 0
       ELSE IF \E r \in ratios : Less(Frac(995, 1000), r) THEN 100
       ELSE Percent(best)

\* the word characters after lower-casing, in code point order
WordOrder ==
    <<"0", "6", "_", "a", "b", "e", "o", "p", "t", "u", "y",
      "Mie", "Li", "Ju", "Ha", "Chang", "De", "Ying", "Mao", "Bo", "Pian",
      "Wan", "Dang", "Zhen", "Shen", "Shi", "Dou", "Yin">>

Rank(c) == CHOOSE n \in DOMAIN WordOrder : WordOrder[n] = c

\* the order of two strings of word characters
RECURSIVE TokenLess(_, _)
TokenLess(x, y) ==
    IF y = <<>> THEN FALSE
    ELSE IF x = <<>> THEN TRUE
    ELSE IF Head(x) = Head(y) THEN TokenLess(Tail(x), Tail(y))
    ELSE Rank(Head(x)) < Rank(Head(y))

\* str.split(): the runs of characters that are not whitespace
RECURSIVE Split(_)
Split(s) ==
    LET t == LStrip(s, {" "})
        n == FindChar(t, {" "}, 1)
    IN IF t = <<>> THEN <<>>
       ELSE IF n = 0 THEN <<t>>
       ELSE <<SubSeq(t, 1, n - 1)>> \o Split(SubSeq(t, n, Len(t)))

RECURSIVE InsertToken(_, _)
InsertToken(sorted, tok) ==
    IF sorted = <<>> THEN <<tok>>
    ELSE IF TokenLess(tok, Head(sorted)) THEN <<tok>> \o sorted
    ELSE <<Head(sorted)>> \o InsertToken(Tail(sorted), tok)

\* sorted(tokens)
RECURSIVE SortTokens(_)
SortTokens(tokens) ==
    IF tokens = <<>> THEN <<>>
    ELSE InsertToken(SortTokens(Tail(tokens)), Head(tokens))

\* " ".join(tokens)
RECURSIVE Join(_)
Join(tokens) ==
    IF tokens = <<>> THEN <<>>
    ELSE IF Len(tokens) = 1 THEN tokens[1]
    ELSE tokens[1] \o <<" ">> \o Join(Tail(tokens))

\* fuzzywuzzy utils.full_process: every character outside \w becomes a
\* space, the string is lower-cased and trimmed
full_process(s) ==
    Strip(Lower([n \in DOMAIN s |-> IF IsWord(s[n]) THEN s[n] ELSE " "]))

\* fuzzywuzzy fuzz.token_sort_ratio: the ratio of the strings with their
\* words sorted
fuzz_token_sort_ratio(str1, str2) ==
    fuzz_ratio(Join(SortTokens(Split(full_process(str1)))),
               Join(SortTokens(Split(full_process(str2)))))

\* max(scores)
Max(S) == CHOOSE x \in S : \A y \in S : y <= x

ScoreExact == 100        \* line 71
ScoreSubstring == 95     \* lines 75 and 77
EpisodeBonus == 20       \* line 101
PlaylistBoost == 5       \* line 125

\* lines 73-92: the substring scores and the fuzzy scores
SubstringAndFuzzy(clean_video, clean_json, clean_full) ==
    (IF Contains(clean_video, clean_json) \/ Contains(clean_json, clean_video)
     THEN {ScoreSubstring} ELSE {})
    \cup (IF /\ clean_full # <<>>
             /\ (Contains(clean_video, clean_full)
                 \/ Contains(clean_full, clean_video))
          THEN {ScoreSubstring} ELSE {})
    \cup {fuzz_ratio(clean_video, clean_json),
          fuzz_token_sort_ratio(clean_video, clean_json),
          fuzz_partial_ratio(clean_video, clean_json)}
    \cup (IF clean_full # <<>>
          THEN {fuzz_ratio(clean_video, clean_full),
                fuzz_token_sort_ratio(clean_video, clean_full),
                fuzz_partial_ratio(clean_video, clean_full)}
          ELSE {})

\* mutant: the markers of the two titles are not compared
EpisodeScoreAnyMarker(video, json) ==
    IF video[2] # NoEpisode /\ json[2] # NoEpisode
    THEN {MinOf(fuzz_ratio(video[1], json[1]) + EpisodeBonus, 100)}
    ELSE {}

\* lines 94-101: the score of two titles with the same episode marker;
\* video and json are <<title without the marker, marker>>
EpisodeScore(video, json) ==
    IF video[2] # NoEpisode /\ json[2] # NoEpisode /\ video[2] = json[2]
    THEN {MinOf(fuzz_ratio(video[1], json[1]) + EpisodeBonus, 100)}
    ELSE {}

\* lines 67-103: the score of the cleaned titles
ScoreOfClean(clean_video, clean_json, clean_full) ==
    IF clean_video = clean_json \/ clean_video = clean_full
    THEN ScoreExact
    ELSE Max(SubstringAndFuzzy(clean_video, clean_json, clean_full)
             \cup EpisodeScore(extract_episode_info(clean_video),
                               extract_episode_info(clean_json)))

\* TitleMatcher.calculate_match_score (lines 59-103)
calculate_match_score(video_title, json_title, json_full_title) ==
    ScoreOfClean(clean_title(video_title), clean_title(json_title),
                 clean_title(json_full_title))

\* the title of the example at lines 169-171, as the video and as the catalog
\* carry it
ScenarioVideo ==
    LabelGame \o <<"E", "P", "0", "6", "<", "Ha", "Li", "Bo", "Shen", ">", "!">>
        \o LabelChannel
ScenarioCatalog ==
    LabelGame \o <<"E", "P", "0", "6", "<", "Ha", "Li", "Bo", "Shen", ">">>
ScenarioCore == <<"Ha", "Li", "Bo", "Shen">>

\* a title that clean_title leaves nothing of
TitleOnlyBracket == <<">">>

\* a title one character away from TitleALonger
TitleBLonger == <<"a", "b", "o", "t">>

MatchTitles ==
    {ScenarioVideo, ScenarioCatalog, TitleA, TitleALonger, TitleB, TitleC,
     TitleBLonger, TitleOnlyBracket, <<>>}

\* calculate_match_score on the titles of the videos and of the catalog,
\* computed once for every triple
MatchScores ==
    [video_title \in MatchTitles, json_title \in MatchTitles,
     json_full_title \in MatchTitles |->
        calculate_match_score(video_title, json_title, json_full_title)]

\* TitleMatcher.playlist_mappings (lines 19-29); the playlist names are
\* written in Latin letters
Playlists ==
    {"ShiYingJuChang", "ShiYinPian", "ShiMieDouDe", "ShiWanMao", "KouShiWang",
     "XueShuYanTaoHui", "ChengShiCeHuangJi", "TongQiuYi", "RenXiao"}

playlist_mappings ==
    [p \in Playlists |->
        CASE p = "ShiYingJuChang" -> {"films", "ads"}
          [] p = "ShiYinPian" -> {"songs"}
          [] OTHER -> {"variety-shows"}]

\* TitleMatcher.is_playlist_appropriate (lines 133-137)
is_playlist_appropriate(playlist, json_entry) == TRUE

\* the None of find_best_match
NoEntry == [none |-> TRUE]

\* lines 113-129: the loop of find_best_match from entry i on; best is
\* <<best_match, best_score>>
\* lines 117-118: the entry has the link of another video
Skipped(video, entry) ==
    /\ ~Falsy(Get(entry, "videoUrl"))
    /\ Get(video, "url") # Get(entry, "videoUrl")

\* lines 121-125: the score of the entry, boosted
BoostedScore(video, entry) ==
    MatchScores[GetDefault(video, "title", <<>>),
                GetDefault(entry, "title", <<>>),
                GetDefault(entry, "fullTitle", <<>>)]
        + (IF is_playlist_appropriate(GetDefault(video, "playlist", ""), entry)
           THEN PlaylistBoost
           ELSE 0)

\* mutant: an entry of equal score replaces the best one so far
BetterOrEqual(entry, score, threshold, best) ==
    IF score >= best[2] /\ score >= threshold THEN <<entry, score>> ELSE best

\* lines 127-129: the entry replaces the best one so far
Better(entry, score, threshold, best) ==
    IF score > best[2] /\ score >= threshold THEN <<entry, score>> ELSE best

RECURSIVE BestFrom(_, _, _, _, _)
BestFrom(video, json_entries, threshold, i, best) ==
    IF i > Len(json_entries) THEN best
    ELSE BestFrom(video, json_entries, threshold, i + 1,
                  IF Skipped(video, json_entries[i]) THEN best
                  ELSE Better(json_entries[i],
                              BoostedScore(video, json_entries[i]),
                              threshold, best))

\* mutant: the score is not compared with min_confidence
find_best_match_unfiltered(video, json_entries, threshold) ==
    BestFrom(video, json_entries, 0, 1, <<NoEntry, 0>>)

\* TitleMatcher.find_best_match (lines 105-131): <<best_match, best_score>>
find_best_match(video, json_entries, threshold) ==
    BestFrom(video, json_entries, threshold, 1, <<NoEntry, 0>>)

AutomaticFrom == 90      \* line 151

\* lines 146-152: match_info
MatchInfo(video, best) ==
    [video |-> video,
     json_entry |-> best[1],
     confidence |-> best[2],
     video_url |-> GetDefault(video, "url", ""),
     match_type |-> IF best[2] >= AutomaticFrom THEN "automatic" ELSE "fuzzy"]

\* lines 144-153: the match of a video is recorded when there is one
Recorded(video, best) ==
    IF best[1] # NoEntry THEN <<MatchInfo(video, best)>> ELSE <<>>

\* TitleMatcher.match_videos_to_json (lines 139-158)
RECURSIVE match_videos_to_json(_, _, _)
match_videos_to_json(videos, json_entries, threshold) ==
    IF videos = <<>> THEN <<>>
    ELSE Recorded(Head(videos),
                  find_best_match(Head(videos), json_entries, threshold))
         \o match_videos_to_json(Tail(videos), json_entries, threshold)

MaxCatalog == 2     \* catalog entries handed to match_videos_to_json

\* the link of the video at position i
VideoUrls == <<"w1", "w2", "w3", "w4">>

\* VideoMatcher.playlist_to_json_mapping (video_matcher.py, lines 35-46)
playlist_to_json_mapping ==
    [p \in Playlists \cup {"channel_videos"} |->
        CASE p = "ShiYingJuChang" -> {"films"}
          [] p = "ShiYinPian" -> {"audition-films"}
          [] p = "channel_videos" ->
                 {"variety-shows", "films", "songs", "ads", "audition-films"}
          [] OTHER -> {"variety-shows"}]

\* the videos of a playlist at position i of its list
VideosAt(i, playlist) ==
    {[title |-> t, url |-> VideoUrls[i], playlist |-> playlist] :
        t \in {ScenarioVideo, TitleA, <<>>}}

RECURSIVE VideosOfLen(_, _)
VideosOfLen(n, playlist) ==
    IF n = 0 THEN {<<>>}
    ELSE {Append(v, video) : v \in VideosOfLen(n - 1, playlist),
                             video \in VideosAt(n, playlist)}

\* the lists of videos of one playlist handed to match_videos_to_json:
\* none, one or two videos
VideoLists(playlist) ==
    VideosOfLen(0, playlist) \cup VideosOfLen(1, playlist)
        \cup VideosOfLen(2, playlist)

\* the playlists whose videos are matched
MatchedPlaylists == {"ShiWanMao", "ShiYinPian", "channel_videos"}

\* the entries of a catalog file: without a link, or with the link of the
\* first video
CatalogEntries ==
    {[title |-> ScenarioCatalog],
     [title |-> TitleA],
     [title |-> TitleB, fullTitle |-> TitleALonger],
     [title |-> TitleOnlyBracket],
     [title |-> TitleA, videoUrl |-> VideoUrls[1]]}

RECURSIVE EntryListsOfLen(_)
EntryListsOfLen(n) ==
    IF n = 0 THEN {<<>>}
    ELSE {Append(c, e) : c \in EntryListsOfLen(n - 1), e \in CatalogEntries}

EntryLists == UNION {EntryListsOfLen(n) : n \in 0..MaxCatalog}

\* the catalog files whose entries are matched
FileTypes == {"variety-shows", "audition-films"}

DefaultConfidence == 70          \* line 15
VideoMatcherConfidence == 75     \* video_matcher.py, line 29

MatchThresholds == {DefaultConfidence, VideoMatcherConfidence, ScoreExact}

\* VideoMatcher.process_playlist_for_json_file hands the videos of one
\* playlist and the entries of one of the catalog files mapped to it
InitMatch ==
    /\ InitUpdaterIdle
    /\ \E playlist \in MatchedPlaylists :
           /\ s1 \in VideoLists(playlist)
           /\ json_file_type \in playlist_to_json_mapping[playlist] \cap FileTypes
    /\ s2 \in EntryLists
    /\ min_confidence \in MatchThresholds
    /\ source_name = "none"
    /\ out = <<>>
    /\ op = "none"

\* out = find_best_match(s1[1], s2)
FindBestMatch ==
    /\ op = "none"
    /\ json_file_type \in FileTypes
    /\ s1 # <<>>
    /\ out' = find_best_match(s1[1], s2, min_confidence)
    /\ op' = "find_best_match"
    /\ UNCHANGED <<s1, s2, min_confidence, source_name, json_file_type>>
    /\ UNCHANGED updaterVars

\* out = match_videos_to_json(s1, s2)
MatchVideos ==
    /\ op = "none"
    /\ json_file_type \in FileTypes
    /\ out' = match_videos_to_json(s1, s2, min_confidence)
    /\ op' = "match_videos_to_json"
    /\ UNCHANGED <<s1, s2, min_confidence, source_name, json_file_type>>
    /\ UNCHANGED updaterVars

\* the same videos and entries are matched again by a matcher with a higher
\* min_confidence
MatchVideosRaised(threshold) ==
    /\ op \in {"match_videos_to_json", "match_videos_raised"}
    /\ min_confidence < threshold
    /\ min_confidence' = threshold
    /\ out' = match_videos_to_json(s1, s2, threshold)
    /\ op' = "match_videos_raised"
    /\ UNCHANGED <<s1, s2, source_name, json_file_type>>
    /\ UNCHANGED updaterVars

NextMatch ==
    \/ FindBestMatch
    \/ MatchVideos
    \/ \E threshold \in MatchThresholds : MatchVideosRaised(threshold)

SpecMatch == InitMatch /\ [][NextMatch]_vars

\* the titles handed to the scorers: the example of lines 169-171 and its
\* variants, labelled and plain titles, and titles nothing is left of
ScoreTitles ==
    {ScenarioVideo, ScenarioCatalog, ScenarioCore,
     LabelGame \o <<"E", "P", "0", "6">>,
     LabelGame \o <<"E", "P", "0", "6", "a">>,
     LabelGame \o <<"E", "P", "0", "6", "b">>,
     LabelGame \o <<"e", "p", "0", "6", "<">> \o ScenarioCore \o <<">">>,
     LabelGame \o <<"E", "P", "6", "<">> \o ScenarioCore \o <<">">>,
     LabelFilm \o <<"<">> \o TitleA \o <<">">>,
     TitleA \o <<" ">> \o SuffixYouTube,
     TitleA, TitleALonger, TitleB, TitleC, TitleOnlyBracket, <<>>}

InitScore ==
    /\ InitUpdaterIdle
    /\ s1 \in ScoreTitles
    /\ s2 \in ScoreTitles
    /\ out = <<>>
    /\ op = "none"
    /\ NoMatcher

\* out = calculate_match_score(s1, s2), json_full_title left at its default
MatchScore ==
    /\ op = "none"
    /\ out' = calculate_match_score(s1, s2, <<>>)
    /\ op' = "calculate_match_score"
    /\ UNCHANGED <<s1, s2, min_confidence, source_name, json_file_type>>
    /\ UNCHANGED updaterVars

NextScore == Normalize \/ Similarity \/ MatchScore

SpecScore == InitScore /\ [][NextScore]_vars

-----------------------------------------------------------------------------
(* The places that sort match confidences into tiers.  A confidence is kept *)
(* in hundredths: s1 = 87 is 0.87 for the tools of the 0-1 scale and 87 for *)
(* the report of VideoMatcher.  A match that falls in no list of a place    *)
(* has the tier "NONE" there.                                               *)

\* the largest score of TitleMatcher: an exact match with the playlist boost
MaxConfidence == ScoreExact + PlaylistBoost

\* the threshold cross_reference_films.main passes to find_matches
\* (lines 235-250), in hundredths
CrossReferenceConfidence == 60

\* cross_reference_films.main, lines 259-262
cross_reference_tier(confidence) ==
    IF ~Less(confidence, Frac(90, 100)) THEN "HIGH"
    ELSE IF ~Less(confidence, Frac(80, 100)) THEN "MEDIUM"
    ELSE IF ~Less(confidence, Frac(60, 100)) THEN "LOW"
    ELSE "NONE"

\* review_manual_matches.main, lines 60-62
review_tier(confidence) ==
    IF ~Less(confidence, Frac(90, 100)) THEN "HIGH"
    ELSE IF ~Less(confidence, Frac(80, 100)) THEN "MEDIUM"
    ELSE IF ~Less(confidence, Frac(60, 100)) THEN "LOW"
    ELSE "NONE"

\* apply_video_url_updates.main, lines 102-107
apply_tier(confidence) ==
    IF ~Less(confidence, Frac(90, 100)) THEN "HIGH"
    ELSE IF ~Less(confidence, Frac(80, 100)) THEN "MEDIUM"
    ELSE "LOW"

\* VideoMatcher.generate_report, lines 162-164
report_tier(confidence) ==
    IF confidence >= 90 THEN "HIGH"
    ELSE IF confidence >= 75 THEN "MEDIUM"
    ELSE "LOW"

InitTiers ==
    /\ InitUpdaterIdle
    /\ s1 \in 0..MaxConfidence
    /\ s2 = <<>>
    /\ out = <<>>
    /\ op = "none"
    /\ NoMatcher

\* a match of the results file, which holds what find_matches returned for
\* min_confidence = 0.6
InResults == CrossReferenceConfidence <= s1 /\ s1 <= 100

\* cross_reference_films.main sorts a match of all_matches
ClassifyCrossReference ==
    /\ op = "none"
    /\ InResults
    /\ out' = cross_reference_tier(Frac(s1, 100))
    /\ op' = "cross_reference"
    /\ UNCHANGED <<s1, s2, min_confidence, source_name, json_file_type>>
    /\ UNCHANGED updaterVars

\* review_manual_matches.main sorts a match of the results file
ClassifyReview ==
    /\ op = "none"
    /\ InResults
    /\ out' = review_tier(Frac(s1, 100))
    /\ op' = "review"
    /\ UNCHANGED <<s1, s2, min_confidence, source_name, json_file_type>>
    /\ UNCHANGED updaterVars

\* apply_video_url_updates.main labels a match of the results file
ClassifyApply ==
    /\ op = "none"
    /\ InResults
    /\ out' = apply_tier(Frac(s1, 100))
    /\ op' = "apply"
    /\ UNCHANGED <<s1, s2, min_confidence, source_name, json_file_type>>
    /\ UNCHANGED updaterVars

\* VideoMatcher.generate_report counts a match a TitleMatcher with the
\* default min_confidence of VideoMatcher produced
ClassifyReport ==
    /\ op = "none"
    /\ s1 >= VideoMatcherConfidence
    /\ out' = report_tier(s1)
    /\ op' = "report"
    /\ UNCHANGED <<s1, s2, min_confidence, source_name, json_file_type>>
    /\ UNCHANGED updaterVars

NextTiers ==
    \/ ClassifyCrossReference
    \/ ClassifyReview
    \/ ClassifyApply
    \/ ClassifyReport

SpecTiers == InitTiers /\ [][NextTiers]_vars

\* both matchers: a call of find_matches or a call of TitleMatcher
InitCandidates == InitFind \/ InitMatch

NextCandidates == NextFind \/ NextMatch

SpecCandidates == InitCandidates /\ [][NextCandidates]_vars

-----------------------------------------------------------------------------
(* apply_updates of apply_video_url_updates.py.  file is films.json,        *)
(* backup is films.json.backup, data is the list `films` of the call, s1    *)
(* is results['all_matches'] as main of cross_reference_films.py wrote it,  *)
(* s2 is films.json as it was when the results were computed, and out is    *)
(* films.json as it was when apply_updates was called again.                *)

MaxFilms == 2         \* records in films.json
MaxResultsPool == 1   \* records of the catalog file the results come from

\* the records of films.json: without a link, with a fullTitle, sharing a
\* title, or linked already
FilmRecords ==
    {FilmA, FilmB, [title |-> TitleB], [title |-> TitleA, videoUrl |-> "old"]}

RECURSIVE FilmsOfLen(_)
FilmsOfLen(n) ==
    IF n = 0 THEN {<<>>}
    ELSE {Append(films, film) : films \in FilmsOfLen(n - 1), film \in FilmRecords}

FilmsFiles == UNION {FilmsOfLen(n) : n \in 0..MaxFilms}

ResultsPools == UNION {PoolsOfLen(n) : n \in 0..MaxResultsPool}

\* cross_reference_films.py, line 217: the films without a link
films_without_url(films) ==
    SelectSeq(films, LAMBDA film : Falsy(Get(film, "videoUrl")))

\* cross_reference_films.py, lines 217-255: the candidates of the films
\* without a link against one catalog file, the other files holding no
\* record, sorted by descending confidence
all_matches(films, other_data, source) ==
    SortByConfidence(find_matches(films_without_url(films), other_data, source,
                                  Frac(CrossReferenceConfidence, 100)))

\* lines 26-29: the matches whose confidence reaches min_confidence
high_confidence_matches(results, threshold) ==
    SelectSeq(results, LAMBDA match : Reaches(match.confidence, threshold))

\* mutant: the film's own link is not looked at
TitledFilms(films, film_title) ==
    {i \in DOMAIN films : Get(films[i], "title") = film_title}

\* line 42: the films with that title and without a link
OpenFilms(films, film_title) ==
    {i \in DOMAIN films : /\ Get(films[i], "title") = film_title
                          /\ Falsy(Get(films[i], "videoUrl"))}

\* lines 41-50: the first such film (the loop breaks there), 0 if none
FirstOf(found) == IF found = {} THEN 0 ELSE Min(found)

\* line 44: films[i]['videoUrl'] = video_url
SetVideoUrl(films, i, video_url) ==
    IF i = 0 THEN films
    ELSE [films EXCEPT ![i] =
             [k \in DOMAIN films[i] \cup {"videoUrl"} |->
                 IF k = "videoUrl" THEN video_url ELSE films[i][k]]]

InitApply ==
    /\ file \in FilmsFiles
    /\ backup = NoBackup
    /\ pc = "idle"
    /\ data = <<>>
    /\ idx = 0
    /\ updates_made = 0
    /\ cur = NoMatch
    /\ loc = 0
    /\ before = <<>>
    /\ counted = FALSE
    /\ logged = {}
    /\ ret = NoRet
    /\ s2 = file
    /\ source_name \in SourceNames
    /\ \E other_data \in ResultsPools :
           s1 = all_matches(file, other_data, source_name)
    /\ min_confidence \in Thresholds
    /\ json_file_type = "none"
    /\ out = <<>>
    /\ op = "none"

\* lines 22-31: films.json is loaded
LoadFilms ==
    /\ pc = "idle"
    /\ op = "none"
    /\ data' = file
    /\ idx' = 0
    /\ updates_made' = 0
    /\ pc' = "apply"
    /\ op' = "apply_updates"
    /\ UNCHANGED <<file, backup, cur, loc, before, counted, logged, ret>>
    /\ UNCHANGED <<s1, s2, out, min_confidence, source_name, json_file_type>>

\* lines 36-50: one iteration of `for match in high_confidence_matches`
ApplyUpdate ==
    /\ pc = "apply"
    /\ idx < Len(high_confidence_matches(s1, min_confidence))
    /\ cur' = high_confidence_matches(s1, min_confidence)[idx + 1]
    /\ loc' = FirstOf(OpenFilms(data, cur'.film_title))
    /\ before' = data
    /\ data' = SetVideoUrl(data, loc', cur'.video_url)
    /\ counted' = (loc' # 0)
    /\ updates_made' = updates_made + (IF loc' # 0 THEN 1 ELSE 0)
    /\ idx' = idx + 1
    /\ UNCHANGED <<file, backup, pc, logged, ret>>
    /\ UNCHANGED simVars

\* lines 52-57: films.json.backup is written with json.dump(films, ...)
WriteBackup ==
    /\ pc = "apply"
    /\ idx = Len(high_confidence_matches(s1, min_confidence))
    /\ updates_made > 0
    /\ backup' = data
    /\ pc' = "save"
    /\ UNCHANGED <<file, data, idx, updates_made, cur, loc, before, counted,
                   logged, ret>>
    /\ UNCHANGED simVars

\* lines 60-67: films.json is written and updates_made returned
SaveFilms ==
    /\ pc = "save"
    /\ file' = data
    /\ pc' = "done"
    /\ ret' = updates_made
    /\ Return
    /\ UNCHANGED backup
    /\ UNCHANGED simVars

\* lines 52 and 64-67: no update was made, nothing is written
NoUpdatesNeeded ==
    /\ pc = "apply"
    /\ idx = Len(high_confidence_matches(s1, min_confidence))
    /\ updates_made = 0
    /\ pc' = "done"
    /\ ret' = 0
    /\ Return
    /\ UNCHANGED <<file, backup>>
    /\ UNCHANGED simVars

\* apply_updates is called again with the same results
LoadFilmsAgain ==
    /\ pc = "done"
    /\ op = "apply_updates"
    /\ out' = file
    /\ data' = file
    /\ idx' = 0
    /\ updates_made' = 0
    /\ pc' = "apply"
    /\ ret' = NoRet
    /\ op' = "apply_updates_again"
    /\ UNCHANGED <<file, backup, cur, loc, before, counted, logged>>
    /\ UNCHANGED <<s1, s2, min_confidence, source_name, json_file_type>>

NextApply ==
    \/ LoadFilms
    \/ ApplyUpdate
    \/ WriteBackup
    \/ SaveFilms
    \/ NoUpdatesNeeded
    \/ LoadFilmsAgain

SpecApply == InitApply /\ [][NextApply]_vars

-----------------------------------------------------------------------------
(* One run of VideoMatcher on one playlist and one catalog file:            *)
(* process_playlist_for_json_file loads the entries and matches the videos, *)
(* apply_matches hands the matches to apply_matches_to_file.  s1 is the     *)
(* list of videos, s2 the entries as process_playlist_for_json_file loaded  *)
(* them, out the matches.                                                   *)

MaxVideos == 3      \* videos of the playlist
MaxRecords == 2     \* records of the catalog file

\* the record at position i of the catalog file: without an id and with the
\* link of the first video, without an id and without a link (with or
\* without a fullTitle), and at the first position with an id
RecordsAt(i) ==
    {[title |-> TitleA, videoUrl |-> VideoUrls[1]],
     [title |-> TitleALonger, videoUrl |-> VideoUrls[1]],
     [title |-> TitleA, fullTitle |-> ScenarioCatalog],
     [title |-> TitleA]}
        \cup (IF i = 1 THEN {[id |-> "id1", title |-> TitleA]} ELSE {})

RECURSIVE RecordListsOfLen(_)
RecordListsOfLen(n) ==
    IF n = 0 THEN {<<>>}
    ELSE {Append(c, e) : c \in RecordListsOfLen(n - 1), e \in RecordsAt(n)}

RecordLists == UNION {RecordListsOfLen(n) : n \in 0..MaxRecords}

\* the videos of the playlist at position i of its list
PlaylistVideosAt(i, playlist) ==
    {[title |-> t, url |-> VideoUrls[i], playlist |-> playlist] :
        t \in {ScenarioVideo, TitleA, TitleBLonger}}

RECURSIVE PlaylistVideosOfLen(_, _)
PlaylistVideosOfLen(n, playlist) ==
    IF n = 0 THEN {<<>>}
    ELSE {Append(v, video) : v \in PlaylistVideosOfLen(n - 1, playlist),
                             video \in PlaylistVideosAt(n, playlist)}

PlaylistVideos(playlist) ==
    UNION {PlaylistVideosOfLen(n, playlist) : n \in 0..MaxVideos}

InitPipeline ==
    /\ file \in RecordLists
    /\ backup = NoBackup
    /\ pc = "idle"
    /\ data = <<>>
    /\ idx = 0
    /\ updates_made = 0
    /\ cur = NoMatch
    /\ loc = 0
    /\ before = <<>>
    /\ counted = FALSE
    /\ logged = {}
    /\ ret = NoRet
    /\ s1 \in PlaylistVideos("ShiWanMao")
    /\ s2 = <<>>
    /\ out = <<>>
    /\ op = "none"
    /\ min_confidence \in {VideoMatcherConfidence, ScoreExact}
    /\ source_name = "none"
    /\ json_file_type = "variety-shows"

\* video_matcher.py, lines 65-79: process_playlist_for_json_file
ProcessPlaylist ==
    /\ op = "none"
    /\ s2' = load_json_file(file)
    /\ out' = IF load_json_file(file) = <<>> THEN <<>>
              ELSE match_videos_to_json(s1, load_json_file(file), min_confidence)
    /\ op' = "match_videos_to_json"
    /\ UNCHANGED <<s1, min_confidence, source_name, json_file_type>>
    /\ UNCHANGED updaterVars

\* video_matcher.py, lines 104-108 and 122-134: apply_matches_to_file is
\* called when the list of matches is not empty
MatchesFound == op = "match_videos_to_json" /\ out # <<>>

\* the loop of apply_matches_to_file has handled every match
BatchDone == idx = Len(out)

StartNoBackup == MatchesFound /\ BeginNoBackup

StartLoad == MatchesFound /\ BeginLoad

\* one iteration of `for match in matches` on the matches of the run
ApplyNext ==
    /\ pc = "loop"
    /\ idx < Len(out)
    /\ cur' = out[idx + 1]
    /\ data' = ApplyMatch(data, out[idx + 1]).data
    /\ counted' = ApplyMatch(data, out[idx + 1]).counted
    /\ loc' = ApplyMatch(data, out[idx + 1]).loc
    /\ logged' = ApplyMatch(data, out[idx + 1]).logged
    /\ updates_made' = updates_made + (IF counted' THEN 1 ELSE 0)
    /\ before' = data
    /\ idx' = idx + 1
    /\ UNCHANGED <<file, backup, pc, ret>>
    /\ UNCHANGED simVars

EndNoUpdate == BatchDone /\ FinishNoUpdate

EndSaved == BatchDone /\ FinishSaved

EndSaveFailed == BatchDone /\ FinishSaveFailed

NextPipeline ==
    \/ ProcessPlaylist
    \/ StartNoBackup
    \/ StartLoad
    \/ ApplyNext
    \/ EndNoUpdate
    \/ EndSaved
    \/ EndSaveFailed

SpecPipeline == InitPipeline /\ [][NextPipeline]_vars

-----------------------------------------------------------------------------
(* Two calls of apply_matches_to_file on the same catalog file.  The first  *)
(* pass is the call modelled above, on the matches in `out`.  The other     *)
(* pass runs the same function on the matches in s1; its loop works on its  *)
(* own list, so it takes two steps, the load and the rest of the call, and  *)
(* its locals are the record s2:                                            *)
(*   pc, data, ret   as in the first pass                                   *)
(*   loaded_at       pc of the first pass when the other pass loaded        *)
(*   saved_at        pc of the first pass when the other pass returned      *)
(*   start           the catalog file before both passes                    *)
(* The backup of the other pass is a file of its own.  Backups and saves    *)
(* succeed.                                                                 *)

MaxPassBatch == 1     \* matches handed to one pass

\* the catalog files of MaxEntries records without a link
PassCatalogs ==
    {c \in CatalogsOfLen(MaxEntries) :
        \A i \in DOMAIN c : Get(c[i], "videoUrl") = None}

\* the matches of a pass for the link video_url
PassMatches(video_url) ==
    {match \in Matches : /\ match.video_url = video_url
                         /\ match.confidence > OverrideThreshold}

RECURSIVE PassBatchesOfLen(_, _)
PassBatchesOfLen(n, video_url) ==
    IF n = 0 THEN {<<>>}
    ELSE {Append(batch, match) : batch \in PassBatchesOfLen(n - 1, video_url),
                                 match \in PassMatches(video_url)}

PassBatches(video_url) ==
    UNION {PassBatchesOfLen(n, video_url) : n \in 1..MaxPassBatch}

\* lines 113-144: the loop over the matches, from the list d and the count
\* n: <<data, updates_made>> after it
RECURSIVE ApplyBatch(_, _, _)
ApplyBatch(d, matches, n) ==
    IF matches = <<>> THEN <<d, n>>
    ELSE ApplyBatch(ApplyMatch(d, Head(matches)).data, Tail(matches),
                    n + (IF ApplyMatch(d, Head(matches)).counted THEN 1 ELSE 0))

InitConcurrent ==
    /\ file \in PassCatalogs
    /\ backup = NoBackup
    /\ pc = "idle"
    /\ data = <<>>
    /\ idx = 0
    /\ updates_made = 0
    /\ cur = NoMatch
    /\ loc = 0
    /\ before = <<>>
    /\ counted = FALSE
    /\ logged = {}
    /\ ret = NoRet
    /\ out \in PassBatches("u1")
    /\ s1 \in PassBatches("u2")
    /\ s2 = [pc |-> "idle", data |-> <<>>, ret |-> NoRet, loaded_at |-> "none",
             saved_at |-> "none", start |-> file]
    /\ op = "match_videos_to_json"
    /\ min_confidence = VideoMatcherConfidence
    /\ source_name = "none"
    /\ json_file_type = "variety-shows"

\* lines 101-113 of the other pass: the backup is made and the entries are
\* loaded
OtherLoad ==
    /\ s2.pc = "idle"
    /\ s2' = [s2 EXCEPT !.pc = "loop", !.data = load_json_file(file),
                        !.loaded_at = pc]
    /\ UNCHANGED <<s1, out, op, min_confidence, source_name, json_file_type>>
    /\ UNCHANGED updaterVars

\* mutant: the entries are loaded again before the loop
OtherFinishReloading ==
    /\ s2.pc = "loop"
    /\ file' = IF ApplyBatch(file, s1, 0)[2] > 0
               THEN ApplyBatch(file, s1, 0)[1]
               ELSE file
    /\ s2' = [s2 EXCEPT !.pc = "done", !.data = <<>>,
                        !.ret = ApplyBatch(file, s1, 0)[2],
                        !.saved_at = pc]
    /\ UNCHANGED <<s1, out, op, min_confidence, source_name, json_file_type>>
    /\ UNCHANGED <<backup, pc, data, idx, updates_made, cur, loc, before,
                   counted, logged, ret>>

\* lines 113-156 of the other pass: the loop, and the save when an update
\* was made
OtherFinish ==
    /\ s2.pc = "loop"
    /\ file' = IF ApplyBatch(s2.data, s1, 0)[2] > 0
               THEN ApplyBatch(s2.data, s1, 0)[1]
               ELSE file
    /\ s2' = [s2 EXCEPT !.pc = "done", !.data = <<>>,
                        !.ret = ApplyBatch(s2.data, s1, 0)[2],
                        !.saved_at = pc]
    /\ UNCHANGED <<s1, out, op, min_confidence, source_name, json_file_type>>
    /\ UNCHANGED <<backup, pc, data, idx, updates_made, cur, loc, before,
                   counted, logged, ret>>

NextConcurrent ==
    \/ StartLoad
    \/ ApplyNext
    \/ EndNoUpdate
    \/ EndSaved
    \/ OtherLoad
    \/ OtherFinish

SpecConcurrent == InitConcurrent /\ [][NextConcurrent]_vars

-----------------------------------------------------------------------------
(* Properties of JSONUpdater.apply_matches_to_file.  A loop iteration has   *)
(* just run when pc = "loop" and cur # NoMatch; it read `before`, located   *)
(* record `loc` and left `data`.                                           *)

Stepped == pc = "loop" /\ cur # NoMatch

Located == Stepped /\ loc # 0

ById == Get(cur.json_entry, "id") # None

OldUrl == Get(before[loc], "videoUrl")

NewUrl == Get(data[loc], "videoUrl")

\* the match proposes a url different from the link the record carries, with
\* a confidence that does not exceed the override threshold
WeakOverride ==
    /\ Located
    /\ ~Falsy(OldUrl)
    /\ OldUrl # cur.video_url
    /\ cur.confidence <= OverrideThreshold

\* C1: override protection.  A match that locates a record carrying a
\* non-empty videoUrl U1 and proposes another url with confidence <= 95
\* leaves the record's videoUrl at U1 and is not counted as an update,
\* whether the record was located by id or by title.
C1_OverrideProtection ==
    WeakOverride => (NewUrl = OldUrl /\ ~counted)

\* C2: the merge is idempotent.  When the match just processed found a record
\* without a link and the next iteration processes the same match again, the
\* first was counted as an update, the second is not counted and leaves the
\* list as it is, whatever the confidence of the match.
C2_MergeIdempotent ==
    [][(/\ Located
        /\ Falsy(OldUrl)
        /\ pc' = "loop"
        /\ idx' = idx + 1
        /\ cur' = cur)
       => (counted /\ ~counted' /\ data' = data /\ NewUrl = cur.video_url)]_vars

\* the fields of a record other than videoUrl
OtherFields(e) == DOMAIN e \ {"videoUrl"}

\* b is a with at most some videoUrl fields set: same length, and at every
\* position the same fields other than videoUrl with the same values
Frame(a, b) ==
    /\ Len(a) = Len(b)
    /\ \A i \in DOMAIN a :
          /\ OtherFields(b[i]) = OtherFields(a[i])
          /\ \A k \in OtherFields(a[i]) : b[i][k] = a[i][k]
          /\ "videoUrl" \in DOMAIN a[i] => "videoUrl" \in DOMAIN b[i]

\* C3: frame of the merge.  While a batch is processed the list keeps its
\* length and every record keeps its position and every field other than
\* videoUrl; the file written at the end relates in the same way to the file
\* read at the start (of which the backup is a copy).
C3_Frame ==
    /\ pc = "loop" => Frame(file, data)
    /\ (pc = "done" /\ backup # NoBackup /\ file # Corrupt) => Frame(backup, file)

\* a batch of two matches was processed: the second one changed a record of a
\* list of two that the first one had changed too
C3_Witness ==
    /\ Stepped
    /\ idx = 2
    /\ Len(data) = 2
    /\ data # before
    /\ before # file

\* C4: the lookup never crosses strategies.  A match whose json_entry has an
\* id changes only a record with that id, and nothing when no record has it;
\* a match whose json_entry has no id changes only a record whose title
\* equals its title; no iteration changes more than one record.
C4_NoCrossLookup ==
    Stepped =>
        LET json_entry == cur.json_entry
            changed == {i \in DOMAIN before : data[i] # before[i]}
        IN /\ Len(data) = Len(before)
           /\ Cardinality(changed) <= 1
           /\ \A i \in changed :
                 IF ById THEN Get(before[i], "id") = Get(json_entry, "id")
                 ELSE Get(before[i], "title") = GetDefault(json_entry, "title", "")

\* a match with an id that no record carries, while a record without a link
\* has the title of the match: no record is changed
C4_Witness ==
    /\ Stepped
    /\ ById
    /\ \A i \in DOMAIN before : Get(before[i], "id") # Get(cur.json_entry, "id")
    /\ \E i \in DOMAIN before :
          /\ Get(before[i], "title") = Get(cur.json_entry, "title")
          /\ Falsy(Get(before[i], "videoUrl"))
    /\ data = before

\* the records whose title equals the title of the match
SameTitle == {i \in DOMAIN before :
                 Get(before[i], "title") = GetDefault(cur.json_entry, "title", "")}

\* C5: an ambiguous identity is surfaced.  When the title of a match without
\* id is the title of more than one record, a warning is emitted and no
\* record is updated.
C5_AmbiguousSurfaced ==
    (Stepped /\ ~ById /\ Cardinality(SameTitle) > 1)
        => ("warning" \in logged /\ data = before /\ ~counted)

-----------------------------------------------------------------------------
(* Properties of normalize_title and calculate_similarity. *)

\* C6: normalization is idempotent.  Normalizing the result of
\* normalize_title again gives the same string.
C6_NormalizeIdempotent ==
    op = "normalize2" => out = s2

Scored == op = "similarity"

\* not empty, not a placeholder, trimmed length at least 2
NonDegenerate(x) ==
    /\ x # <<>>
    /\ x \notin Placeholders
    /\ Len(Strip(x)) >= 2

\* C7: similarity is reflexive.  calculate_similarity(x, x) is 1.0 for every
\* non-degenerate x, whatever x normalizes to.
C7_Reflexive ==
    (Scored /\ s1 = s2 /\ NonDegenerate(s1)) => out = Score1

\* a non-degenerate x that normalizes to the empty string is scored 1.0
\* against itself
C7_Witness ==
    /\ Scored
    /\ s1 = s2
    /\ NonDegenerate(s1)
    /\ normalize_title(s1) = <<>>
    /\ out = Score1

\* C8: a placeholder in either argument position gives 0.0, whatever the
\* other argument is.
C8_PlaceholderZero ==
    (Scored /\ (s1 \in Placeholders \/ s2 \in Placeholders)) => out = Score0

\* a non-empty placeholder as the first argument, a usable title that
\* contains it as the second, scored 0.0
C8_Witness ==
    /\ Scored
    /\ s1 \in Placeholders
    /\ s1 # <<>>
    /\ NonDegenerate(s2)
    /\ Len(normalize_title(s2)) >= 2
    /\ Contains(s2, s1)
    /\ out = Score0

\* the trimmed length of x is below 2 (the empty string included)
TooShort(x) == Len(Strip(x)) < 2

\* C9: an empty input, or an input whose trimmed length is below 2, gives
\* 0.0 in the first argument as well as in the second, also when the two
\* arguments are equal or normalize to the same string.
C9_ShortZero ==
    (Scored /\ (TooShort(s1) \/ TooShort(s2))) => out = Score0

\* two equal one-character arguments, and a short first argument against a
\* usable second one, are scored 0.0
C9_Witness ==
    /\ Scored
    /\ Len(s1) = 2
    /\ Len(Strip(s1)) = 1
    /\ Strip(s1) \notin Placeholders
    /\ (s1 = s2 \/ (NonDegenerate(s2) /\ Contains(s2, Strip(s1))))
    /\ out = Score0

\* C10: 1.0 is reserved for literal equality.  calculate_similarity(a, b) is
\* 1.0 only if a and b are the same string.
C10_OneOnlyIfEqual ==
    (Scored /\ out = Score1) => s1 = s2

-----------------------------------------------------------------------------
(* Properties of the candidate matchers find_matches and TitleMatcher.      *)

\* a matcher has just been called again on the same items and the same pool
\* with a higher min_confidence
CalledAgainRaised ==
    /\ op' \in {"find_matches_raised", "match_videos_raised"}
    /\ s1' = s1
    /\ s2' = s2
    /\ min_confidence' # min_confidence

\* C11: thresholding is monotonic: called again on the same unmatched items
\* and the same pool with a higher min_confidence, find_matches returns no
\* more candidates than before, and match_videos_to_json no more matches.
C11_ThresholdMonotone == [][CalledAgainRaised => Len(out') <= Len(out)]_vars

\* the raised threshold did remove candidates that the default one admits
C11_Witness ==
    /\ op = "find_matches_raised"
    /\ out # <<>>
    /\ Len(out) < Len(find_matches(s1, s2, source_name, Frac(60, 100)))

\* the example title is scored against the example catalog title
ScenarioScored == s1 = ScenarioVideo /\ s2 = ScenarioCatalog

\* C12: the reference scenario: normalize_title of the example video title
\* is the bracketed core of the title; scored against the example catalog
\* title it gets at least 0.9 from calculate_similarity and at least 90 from
\* calculate_match_score.
C12_ReferenceScenario ==
    /\ op = "normalize" /\ s1 = ScenarioVideo => out = ScenarioCore
    /\ op = "similarity" /\ ScenarioScored => ~Less(out, Frac(90, 100))
    /\ op = "calculate_match_score" /\ ScenarioScored => out >= 90

C12_Witness ==
    /\ op = "similarity"
    /\ ScenarioScored
    /\ out = ScoreNormEqual
    /\ normalize_title(s1) = ScenarioCore

FindCalled == op \in {"find_matches", "find_matches_raised"}

MatchCalled == op \in {"match_videos_to_json", "match_videos_raised"}

\* no field pair of any film and any pool record reaches min_confidence
NoPairReaches ==
    \A k \in DOMAIN s1 : \A n \in DOMAIN s2 :
        LET similarities == FieldPairs(s1[k], s2[n], source_name)
        IN \A m \in DOMAIN similarities :
               Less(similarities[m][2], min_confidence)

\* no catalog entry gets a score that reaches min_confidence for the video
NoEntryReaches(video) ==
    \A n \in DOMAIN s2 :
        MatchScores[video.title, GetDefault(s2[n], "title", <<>>),
                    GetDefault(s2[n], "fullTitle", <<>>)] + PlaylistBoost
            < min_confidence

\* C13: an empty pool is not an error: find_matches then returns the empty
\* list, find_best_match returns (None, 0) and match_videos_to_json no
\* match; the same holds when the pool is not empty and no score reaches
\* min_confidence.
C13_EmptyPoolNoError ==
    /\ FindCalled /\ (s2 = <<>> \/ NoPairReaches) => out = <<>>
    /\ op = "find_best_match" /\ (s2 = <<>> \/ NoEntryReaches(s1[1]))
           => out = <<NoEntry, 0>>
    /\ MatchCalled /\ (s2 = <<>> \/ \A k \in DOMAIN s1 : NoEntryReaches(s1[k]))
           => out = <<>>

\* find_best_match was called for a video with an empty pool
C13_Witness ==
    /\ op = "find_best_match"
    /\ s2 = <<>>
    /\ out = <<NoEntry, 0>>

\* the positions of out that hold the candidates of film k
CandidatesOf(k) == {n \in DOMAIN out : out[n].film = s1[k]}

\* C14: find_matches returns at most 3 candidates for each film; every
\* candidate has a confidence of at least min_confidence, comes from a pool
\* record that carries a non-empty videoUrl, and has that videoUrl as its
\* video_url.
C14_CandidatesBounded ==
    FindCalled =>
        /\ \A k \in DOMAIN s1 : Cardinality(CandidatesOf(k)) <= 3
        /\ \A n \in DOMAIN out :
               /\ ~Less(out[n].confidence, min_confidence)
               /\ \E i \in DOMAIN s2 :
                      /\ out[n].match = s2[i]
                      /\ Get(s2[i], "videoUrl") \notin {None, ""}
                      /\ out[n].video_url = Get(s2[i], "videoUrl")

\* a film with more than three pool records that reach the threshold
C14_Witness ==
    /\ FindCalled
    /\ \E k \in DOMAIN s1 :
           /\ Cardinality(CandidatesOf(k)) = 3
           /\ Len(BestMatches(s1[k], s2, source_name, min_confidence, 1)) > 3

\* the position in the pool of the record a candidate came from
PoolIndex(candidate) == CHOOSE i \in DOMAIN s2 : s2[i] = candidate.match

\* the candidates of film k that reached the threshold and were cut away
Truncated(k) ==
    LET survivors == BestMatches(s1[k], s2, source_name, min_confidence, 1)
    IN {survivors[i] : i \in DOMAIN survivors}
           \ {out[n] : n \in CandidatesOf(k)}

\* C15: ranking in find_matches: the candidates kept for a film are listed
\* in non-increasing confidence, candidates of equal confidence in the order
\* of the pool, and no candidate that was cut away has a strictly higher
\* confidence than a kept one.
C15_Ranking ==
    FindCalled =>
        \A k \in DOMAIN s1 :
            /\ \A n, m \in CandidatesOf(k) :
                   n < m =>
                       /\ ~Less(out[n].confidence, out[m].confidence)
                       /\ out[n].confidence = out[m].confidence
                              => PoolIndex(out[n]) < PoolIndex(out[m])
            /\ \A c \in Truncated(k) : \A n \in CandidatesOf(k) :
                   ~Less(out[n].confidence, c.confidence)

\* a film whose kept candidates include two of equal confidence and one
\* that the sort moved ahead of an earlier pool record, with a candidate
\* cut away
C15_Witness ==
    /\ FindCalled
    /\ \E k \in DOMAIN s1 :
           /\ Truncated(k) # {}
           /\ \E n, m \in CandidatesOf(k) :
                  n < m /\ out[n].confidence = out[m].confidence
           /\ \E n, m \in CandidatesOf(k) :
                  n < m /\ PoolIndex(out[n]) > PoolIndex(out[m])

-----------------------------------------------------------------------------
(* Properties of the confidence tiers. *)

Classified == op \in {"cross_reference", "review", "apply", "report"}

\* the tier of a confidence given in hundredths: HIGH from 90, MEDIUM from
\* 80 to below 90, LOW from 60 to below 80
StatedTier(hundredths) ==
    IF hundredths >= 90 THEN "HIGH"
    ELSE IF hundredths >= 80 THEN "MEDIUM"
    ELSE IF hundredths >= 60 THEN "LOW"
    ELSE "NONE"

\* C16: every place that sorts a match confidence into tiers uses the same
\* boundaries, 0.9 / 0.8 / 0.6 on the 0-1 scale and 90 / 80 / 60 on the
\* 0-100 scale: HIGH is score >= 90, MEDIUM is 80 <= score < 90 and LOW is
\* 60 <= score < 80.
C16_SameTiers == Classified => out = StatedTier(s1)

-----------------------------------------------------------------------------
(* Properties of TitleMatcher.  The entries handed to the matcher are those *)
(* of the catalog file json_file_type.                                     *)

\* the score of calculate_match_score for a video and an entry, before any
\* boost
BaseScore(video, entry) ==
    MatchScores[GetDefault(video, "title", <<>>),
                GetDefault(entry, "title", <<>>),
                GetDefault(entry, "fullTitle", <<>>)]

\* the playlist of the video is in the compatibility table and the table
\* does not list the catalog file of the entries for it
DeclaredIncompatible(video) ==
    /\ video.playlist \in DOMAIN playlist_mappings
    /\ json_file_type \notin playlist_mappings[video.playlist]

\* C17: the domain boost is conditional: find_best_match adds the bonus of 5
\* only when the playlist of the video is declared compatible with the
\* record type of the entry; for a playlist that is in the table and not
\* declared compatible with that type the score stays unboosted.
C17_BoostConditional ==
    /\ op = "find_best_match" /\ out[1] # NoEntry /\ DeclaredIncompatible(s1[1])
           => out[2] = BaseScore(s1[1], out[1])
    /\ MatchCalled =>
           \A n \in DOMAIN out :
               DeclaredIncompatible(out[n].video)
                   => out[n].confidence = BaseScore(out[n].video, out[n].json_entry)

\* C18: the confidence of every match produced by find_best_match and
\* recorded by match_videos_to_json lies in the range 0..100, also after the
\* episode bonus and the playlist boost have been added.
C18_ConfidenceInRange ==
    /\ op = "find_best_match" => out[2] \in 0..ScoreExact
    /\ MatchCalled => \A n \in DOMAIN out : out[n].confidence \in 0..ScoreExact

\* the title of the record is empty or cleans to the empty string
CleansToEmpty(record) == clean_title(GetDefault(record, "title", <<>>)) = <<>>

\* C19: degenerate text is excluded in TitleMatcher: a catalog entry whose
\* title is empty or cleans to the empty string is never returned by
\* find_best_match, and a video whose title is empty or cleans to the empty
\* string is matched to no entry.
C19_DegenerateExcluded ==
    /\ op = "find_best_match" /\ out[1] # NoEntry
           => ~CleansToEmpty(out[1]) /\ ~CleansToEmpty(s1[1])
    /\ MatchCalled =>
           \A n \in DOMAIN out :
               ~CleansToEmpty(out[n].json_entry) /\ ~CleansToEmpty(out[n].video)

-----------------------------------------------------------------------------
(* The boosts of calculate_similarity. *)

\* calculate_similarity has reached the fuzzy ratio: the inputs are not
\* degenerate, and neither they nor their normalized forms are equal
ReachedFuzzy ==
    /\ Scored
    /\ NonDegenerate(s1) /\ NonDegenerate(s2)
    /\ ~NormUnusable(normalize_title(s1), normalize_title(s2))
    /\ s1 # s2
    /\ normalize_title(s1) # normalize_title(s2)

\* the lower-cased normalized forms and what is left of them without the
\* characters that are not alphanumeric
Lowered(str) == Lower(normalize_title(str))
Stripped(str) == RemoveNonWord(Lowered(str))

OneContains(x, y) == Contains(x, y) \/ Contains(y, x)

\* one lower-cased normalized string is a substring of the other and the
\* shorter normalized string has length at least 3
FloorContains ==
    /\ OneContains(Lowered(s1), Lowered(s2))
    /\ MinOf(Len(normalize_title(s1)), Len(normalize_title(s2))) >= 3

\* the stripped forms are equal and have length at least 3
FloorCleanEqual == Stripped(s1) = Stripped(s2) /\ Len(Stripped(s1)) >= 3

\* one stripped form contains the other and the shorter has length at least 3
FloorCleanContains ==
    /\ OneContains(Stripped(s1), Stripped(s2))
    /\ MinOf(Len(Stripped(s1)), Len(Stripped(s2))) >= 3

\* the base fuzzy ratio and the floors that apply
Applicable ==
    {Ratio(Lowered(s1), Lowered(s2))}
        \cup (IF FloorContains THEN {Frac(8, 10)} ELSE {})
        \cup (IF FloorCleanEqual THEN {Frac(9, 10)} ELSE {})
        \cup (IF FloorCleanContains THEN {Frac(85, 100)} ELSE {})

\* C20: the boost floors of calculate_similarity.  For non-degenerate inputs
\* whose raw and normalized forms differ the result is the maximum of the
\* base fuzzy ratio and every applicable floor: at least 0.8 when one
\* lower-cased normalized string is a substring of the other and the shorter
\* has length >= 3, at least 0.9 when the stripped forms are equal with
\* length >= 3, at least 0.85 when one stripped form contains the other and
\* the shorter has length >= 3; no boost lowers the score.
C20_BoostFloors ==
    ReachedFuzzy =>
        /\ out \in Applicable
        /\ \A score \in Applicable : ~Less(out, score)

\* the floor 0.85 alone applies and has raised a base ratio below it
C20_Witness ==
    /\ ReachedFuzzy
    /\ FloorCleanContains
    /\ ~FloorCleanEqual
    /\ ~FloorContains
    /\ Less(Ratio(Lowered(s1), Lowered(s2)), Frac(85, 100))
    /\ out = Frac(85, 100)

-----------------------------------------------------------------------------
(* The episode refinement of TitleMatcher.calculate_match_score. *)

MatchScored == op = "calculate_match_score"

\* the positions of title where 'EP' and a digit start, in any case
MarkerStarts(title) ==
    {i \in DOMAIN title :
        /\ i + 2 <= Len(title)
        /\ title[i] \in {"E", "e"}
        /\ title[i + 1] \in {"P", "p"}
        /\ title[i + 2] \in {"0", "6"}}

\* both cleaned titles hold a marker and the extracted markers are equal
SameMarker ==
    /\ MarkerStarts(clean_title(s1)) # {}
    /\ MarkerStarts(clean_title(s2)) # {}
    /\ extract_episode_info(clean_title(s1))[2]
           = extract_episode_info(clean_title(s2))[2]

\* the largest score of the other strategies: the exact match, the
\* substring scores and the three fuzzy ratios
OtherStrategies ==
    IF clean_title(s1) = clean_title(s2) \/ clean_title(s1) = <<>>
    THEN ScoreExact
    ELSE Max(SubstringAndFuzzy(clean_title(s1), clean_title(s2), <<>>))

\* min(ratio of the titles without their markers + 20, 100)
Contribution ==
    MinOf(fuzz_ratio(extract_episode_info(clean_title(s1))[1],
                     extract_episode_info(clean_title(s2))[1]) + 20, 100)

\* C21: the episode refinement of calculate_match_score contributes a score
\* only when both cleaned titles hold an 'EP'+digits marker and the extracted
\* markers are equal, the contribution being min(ratio of the titles
\* without the marker + 20, 100); when the markers differ or one side has
\* none the result is the maximum of the other strategies; the refinement
\* never lowers the score.
C21_EpisodeRefinement ==
    MatchScored =>
        /\ out >= OtherStrategies
        /\ SameMarker => out = Max({OtherStrategies, Contribution})
        /\ ~SameMarker => out = OtherStrategies

\* the markers are equal and the contribution has decided the score
C21_Witness ==
    /\ MatchScored
    /\ SameMarker
    /\ OtherStrategies < Contribution
    /\ out = Contribution

-----------------------------------------------------------------------------
(* The bracket fallback of normalize_title. *)

IsBracket(c) == c \in {OpenB, CloseB}

\* the segments of s that stand between an opening and a closing bracket
\* and hold no bracket themselves
InnermostSegments(s) ==
    {SubSeq(s, p[1] + 1, p[2] - 1) :
        p \in {q \in (DOMAIN s) \X (DOMAIN s) :
                  /\ s[q[1]] = OpenB
                  /\ s[q[2]] = CloseB
                  /\ q[2] > q[1] + 1
                  /\ \A n \in (q[1] + 1)..(q[2] - 1) : ~IsBracket(s[n])}}

\* no pattern with a label matches s
NoLabelledMatch(s) ==
    /\ SearchLabelled(s, LabelFilm) = NoGroup
    /\ SearchLabelled(s, LabelSong) = NoGroup
    /\ SearchLabelled(s, LabelAny) = NoGroup
    /\ SearchLabelledGap(s, LabelGame) = NoGroup

\* normalize_title has been applied to a title that only the last pattern
\* can match and that holds a bracketed segment
FallbackCase ==
    /\ op = "normalize"
    /\ NoLabelledMatch(Strip(s1))
    /\ InnermostSegments(Strip(s1)) # {}

\* C22: the bracket fallback of normalize_title.  When no labelled pattern
\* matches and the string holds a bracket pair, the core extracted is the
\* innermost bracketed segment: a segment that holds no bracket character.
C22_InnermostCore ==
    FallbackCase => ExtractCore(Strip(s1)) \in InnermostSegments(Strip(s1))

-----------------------------------------------------------------------------
(* The selection of TitleMatcher.find_best_match. *)

\* the entry at position n has no link, or the link of the video
Eligible(video, n) ==
    \/ Falsy(Get(s2[n], "videoUrl"))
    \/ Get(s2[n], "videoUrl") = Get(video, "url")

\* the score of the entry at position n with the boost
Boosted(video, n) == BaseScore(video, s2[n]) + PlaylistBoost

\* the positions of the eligible entries whose score reaches min_confidence
Admitted(video) ==
    {n \in DOMAIN s2 : Eligible(video, n) /\ Boosted(video, n) >= min_confidence}

\* the entry is the admitted one of highest score, the first of them in
\* pool order
IsSelection(video, entry, score) ==
    \E n \in Admitted(video) :
        /\ entry = s2[n]
        /\ score = Boosted(video, n)
        /\ \A m \in Admitted(video) :
               \/ Boosted(video, m) < score
               \/ Boosted(video, m) = score /\ n <= m

\* the videos that have an admitted entry, in the order of the list
WithAdmitted == SelectSeq(s1, LAMBDA video : Admitted(video) # {})

\* C23: the selection of find_best_match.  Among the eligible entries (no
\* videoUrl, or the videoUrl of the video) it returns the one of highest
\* boosted score, the first in pool order when scores tie, provided the
\* score reaches min_confidence, and (None, 0) otherwise; an entry whose
\* non-empty videoUrl differs from the url of the video is never returned.
C23_Selection ==
    /\ op = "find_best_match" =>
           IF Admitted(s1[1]) = {} THEN out = <<NoEntry, 0>>
           ELSE IsSelection(s1[1], out[1], out[2])
    /\ MatchCalled =>
           /\ Len(out) = Len(WithAdmitted)
           /\ \A k \in DOMAIN out :
                  /\ out[k].video = WithAdmitted[k]
                  /\ IsSelection(out[k].video, out[k].json_entry, out[k].confidence)
                  /\ \/ Falsy(Get(out[k].json_entry, "videoUrl"))
                     \/ Get(out[k].json_entry, "videoUrl") = out[k].video_url

\* two different entries tie for the highest score and the first is
\* returned, while an entry with the link of another video is passed over
C23_Witness ==
    /\ MatchCalled
    /\ \E k \in DOMAIN out :
           /\ \E n \in Admitted(out[k].video), m \in Admitted(out[k].video) :
                  /\ n < m
                  /\ s2[n] # s2[m]
                  /\ Boosted(out[k].video, n) = out[k].confidence
                  /\ Boosted(out[k].video, m) = out[k].confidence
                  /\ out[k].json_entry = s2[n]
    /\ \E k \in DOMAIN out :
           \E n \in DOMAIN s2 :
               /\ ~Eligible(out[k].video, n)
               /\ Boosted(out[k].video, n) > out[k].confidence

-----------------------------------------------------------------------------
(* Properties of apply_updates.  An iteration of its loop has just run when *)
(* pc = "apply" and idx > 0: it read `before`, handled the match cur and    *)
(* left `data`.                                                            *)

UpdateStepped == pc = "apply" /\ idx > 0

\* the films an iteration changed
Changed(old, new) == {i \in DOMAIN old : new[i] # old[i]}

Linked(films) == {i \in DOMAIN films : ~Falsy(Get(films[i], "videoUrl"))}

\* a run of apply_updates on the films the results were computed from is over
FirstRunDone == pc = "done" /\ op = "apply_updates"

\* C24: apply_updates writes a link only for a match whose confidence
\* reaches min_confidence and only into a film without a link: every match
\* the loop handles reaches min_confidence, an iteration changes one film
\* when it counts an update and none otherwise, the film it changes had no
\* link, carries the title of the match and receives the link of the match,
\* and after the run every film that had a link has the same record.
C24_OnlyHighIntoUnlinked ==
    /\ UpdateStepped =>
           /\ Reaches(cur.confidence, min_confidence)
           /\ DOMAIN data = DOMAIN before
           /\ Changed(before, data) \cap Linked(before) = {}
           /\ Cardinality(Changed(before, data)) = (IF counted THEN 1 ELSE 0)
           /\ \A i \in Changed(before, data) :
                  /\ Get(before[i], "title") = cur.film_title
                  /\ data[i] = SetVideoUrl(before, i, cur.video_url)[i]
    /\ FirstRunDone =>
           /\ DOMAIN file = DOMAIN s2
           /\ \A i \in Linked(s2) : file[i] = s2[i]
           /\ Cardinality(Changed(s2, file)) = ret
           /\ \A i \in Changed(s2, file) :
                  \E n \in DOMAIN s1 :
                      /\ Reaches(s1[n].confidence, min_confidence)
                      /\ s1[n].film_title = Get(s2[i], "title")
                      /\ Get(file[i], "videoUrl") = s1[n].video_url

\* a run that applied a match to a film whose title is also the title of an
\* earlier film with a link, which kept its link
C24_Witness ==
    /\ FirstRunDone
    /\ ret > 0
    /\ \E i \in Changed(s2, file) :
           \E j \in Linked(s2) :
               /\ j < i
               /\ Get(s2[j], "title") = Get(s2[i], "title")
               /\ file[j] = s2[j]

\* C26: when apply_updates has made an update and written films.json.backup,
\* and films.json is not overwritten yet, the backup holds the content of
\* films.json, which is the content before the updates.
C26_BackupHoldsOriginal == pc = "save" => backup = file

\* a second call of apply_updates with the same results is over
SecondRunDone == pc = "done" /\ op = "apply_updates_again"

\* C29: a second call of apply_updates with the same results, on the file
\* the first call left, returns 0 and leaves films.json as it was.
C29_RerunNoOp == SecondRunDone => ret = 0 /\ file = out

-----------------------------------------------------------------------------
\* C25: a step of apply_matches_to_file changes the catalog file only when
\* a backup was made earlier in the call and holds the content the file has
\* before that step; a call that ends without entering the loop (unknown
\* file type, no backup, nothing loaded) returns 0 and leaves the file as it
\* was, and so does a call that ends its loop without an update.
C25_BackupPrecedesWrite ==
    [][/\ file' # file => backup # NoBackup /\ backup = file
       /\ pc = "idle" /\ pc' = "done" => ret' = 0 /\ file' = file
       /\ pc = "loop" /\ pc' = "done" /\ updates_made = 0 =>
              ret' = 0 /\ file' = file]_vars

\* a call that made an update and saved it: the backup holds the content
\* the file had, and the file holds another
C25_Witness ==
    /\ pc = "done"
    /\ ret > 0
    /\ backup \in Catalogs
    /\ file \in Catalogs
    /\ file # backup

-----------------------------------------------------------------------------
(* Properties of a run of VideoMatcher: the matches in `out` are handled in *)
(* order, and the loop has handled the first idx of them.                   *)

\* the ids of the entries of the matches handled so far
IdsTargeted == {Get(out[k].json_entry, "id") : k \in 1..idx} \ {None}

\* the matches handled so far whose entry carries that id
Targeting(id) == {k \in 1..idx : Get(out[k].json_entry, "id") = id}

\* the link of the record with that id
LinkOf(id) == Get(data[FindById(data, id)], "videoUrl")

\* the loop has handled every match of the run
BatchEnded == pc = "loop" /\ op = "match_videos_to_json" /\ BatchDone

\* a later match is located at the record with that id, through its title
HitLater(id) ==
    \E k \in 1..idx :
        /\ k > Max(Targeting(id))
        /\ Locate(data, out[k].json_entry) = FindById(data, id)

RunDone == op = "match_videos_to_json" /\ pc = "done" /\ file # Corrupt

\* C28: after match_videos_to_json and apply_matches_to_file on the same
\* file, every record that had a non-empty videoUrl when the entries were
\* loaded has the same videoUrl.
C28_LinksSurvive ==
    RunDone =>
        \A i \in Linked(s2) :
            Get(file[i], "videoUrl") = Get(s2[i], "videoUrl")

-----------------------------------------------------------------------------
(* Properties of two passes over one catalog file. *)

BothDone == pc = "done" /\ s2.pc = "done"

\* one pass returned before the other loaded
FirstThenOther == s2.loaded_at = "done"
OtherThenFirst == s2.saved_at = "idle"

\* both passes loaded before either saved
Interleaved == ~FirstThenOther /\ ~OtherThenFirst

\* the file after a pass on `matches` that loaded d and ran alone
FileAfter(d, matches) ==
    IF ApplyBatch(d, matches, 0)[2] > 0 THEN ApplyBatch(d, matches, 0)[1]
    ELSE d

\* the first pass saved after the other pass, or alone
FirstSavedLast == ret > 0 /\ (s2.ret = 0 \/ s2.saved_at = "loop")

\* the records the first pass updated, counting each
UpdatedByFirst ==
    {i \in DOMAIN s2.start : FileAfter(s2.start, out)[i] # s2.start[i]}

\* C30: when the two passes run one at a time, each returns the number of
\* updates of its loop on the file the pass before left, and the file
\* holds the updates of both, those of the first pass under those of the
\* second; when both load before either saves, the file holds only what
\* the pass that saved last computed from the file it loaded, so that an
\* update the other pass counted is in the file only when the pass that
\* saved last made the same one.
C30_LostUpdate ==
    BothDone =>
        /\ FirstThenOther =>
               /\ ret = ApplyBatch(s2.start, out, 0)[2]
               /\ s2.ret = ApplyBatch(FileAfter(s2.start, out), s1, 0)[2]
               /\ file = FileAfter(FileAfter(s2.start, out), s1)
        /\ OtherThenFirst =>
               /\ s2.ret = ApplyBatch(s2.start, s1, 0)[2]
               /\ ret = ApplyBatch(FileAfter(s2.start, s1), out, 0)[2]
               /\ file = FileAfter(FileAfter(s2.start, s1), out)
        /\ Interleaved =>
               /\ ret = ApplyBatch(s2.start, out, 0)[2]
               /\ s2.ret = ApplyBatch(s2.start, s1, 0)[2]
               /\ file = IF FirstSavedLast THEN FileAfter(s2.start, out)
                         ELSE FileAfter(s2.start, s1)

\* both passes loaded before either saved, the first pass counted an update
\* of a record, and the file left by both holds that record as it was
\* before the passes
C30_Witness ==
    /\ BothDone
    /\ Interleaved
    /\ ret > 0
    /\ \E i \in UpdatedByFirst : file[i] = s2.start[i]

====
